---- MODULE Spec2Model ----
(***************************************************************************)
(* A model of the Python printer of pyccel (pyccel/codegen/printing/       *)
(* pycode.py), of the OpenMP directive parser (pyccel/parser/syntax/       *)
(* openmp.py) and of the node graph they work on.                          *)
(*                                                                         *)
(* Text is modelled as a sequence of tokens (one string per token), so     *)
(* that concatenation is \o and two texts are equal exactly when they      *)
(* are the same sequence of tokens.                                        *)
(*                                                                         *)
(* The module holds several state machines over one set of variables;      *)
(* each specification runs one of them and leaves the variables of the     *)
(* others at their idle values.                                            *)
(***************************************************************************)
EXTENDS Integers, Sequences, FiniteSets, TLC

VARIABLES
    g_slots,        \* node graph: node id -> sequence of owned children
    g_kind,         \* node graph: node id -> class of the node ("free" if not created)
    g_users,        \* node graph: node id -> set of user nodes (the reverse index)
    g_last,         \* node graph: the last operation performed
    g_calls,        \* node graph: number of substitute calls and lowering steps so far
    additional_imports, \* printer: _additional_imports, source -> (set of targets, list of Import)
    aliases,        \* printer: _aliases, class -> name bound by an import of the source
    registered,     \* history: the (source, symbol, alias) registrations made through the API
    imported,       \* history: the (class, bound name) pairs of the Imports printed
    repeated,       \* history: the registrations made more than once
    p_steps,        \* history: number of printer calls made so far
    default_precision, \* datatypes.default_precision, the precision of a native type
    p_out,          \* printer: what the last leaf printer returned
    lw_chain,       \* lowering: the links of the loop nest of the comprehension, outermost first
    lw_term,        \* lowering: the statement at the bottom of the loop nest
    lw_expr,        \* lowering: the comprehension node handed to the printer
    lw_out,         \* lowering: what the printer of the comprehension did
    t_stack,        \* traversal: the _print_ calls in progress, outermost first
    t_scope,        \* traversal: self._scope, the current scope (0 is None)
    t_parent,       \* traversal: scope -> its parent_scope (0 is None)
    t_set,          \* traversal: number of set_scope calls made
    t_exit,         \* traversal: number of exit_scope calls made
    t_status,       \* traversal: "printing", "done", or the exception that ended the printing
    t_collector,    \* traversal: the diagnostics collector
    t_printed,      \* traversal: number of nodes whose printing has begun
    t_last,         \* traversal: the node whose printing began last
    t_text,         \* traversal: the text the printing of the unit returned
    o_stmt,         \* directives: the text handed to parse, a sequence of directive lines
    o_asserts,      \* directives: whether assert statements are executed
    o_status,       \* directives: "ready", "returned", "printed", or the exception parse raised
    o_node,         \* directives: the node parse returned
    o_errors,       \* directives: the diagnostics in the collector given to parse
    o_code,         \* directives: the text printed for the node
    s_stage,        \* slice: PyccelAstNode.stage
    s_args,         \* slice: the arguments of the last call of the constructor
    s_status,       \* slice: "ready", "constructed", or the exception the constructor raised
    s_slice,        \* slice: the slice constructed last
    s_str,          \* slice: the string form of the slice, once asked for
    d_given,        \* definitions: the FunctionDef or Module as it was built
    d_expr,         \* definitions: the node as the printing has left it
    d_code,         \* definitions: the text the last printing returned
    d_status,       \* definitions: "ready", "printed", or the exception the printing raised
    d_prints,       \* definitions: number of times the node has been printed
    d_ignore,       \* definitions: self._ignore_funcs
    i_lines,        \* indentation: the rendered body
    i_out,          \* indentation: the text after the indentations applied so far
    i_k,            \* indentation: number of indentations applied
    u_errors,       \* units: the collector of the process (the Errors singleton)
    u_target,       \* units: the file the collector reports for (set_target)
    u_printers,     \* units: the printers created so far, each with its tables
    u_phase,        \* units: "between" units, "running" a unit, or "ended" before the reset
    u_reset,        \* units: whether the collector was reset after the last unit
    u_ops,          \* units: number of operations made in the unit being processed
    u_actor,        \* units: the printer whose operation was made last
    o_version,      \* directives: the version of the standard the module was loaded with
    o_parses,       \* directives: number of parse calls made in the unit
    k_pc,           \* lock: run of test_locking -> where the run is
    k_lock,         \* lock: the process that holds the lock file (0 if none)
    c_ignore,       \* calls: self._ignore_funcs, the names of the functions whose calls are not printed
    c_last,         \* calls: the node printed last
    c_code,         \* calls: the text the last printing returned
    c_after,        \* history: the initialisation and free functions of the modules and imports printed so far
    c_steps,        \* history: number of nodes printed so far
    a_scope,        \* alias scopes: the definition being printed ("module" at module level)
    a_bound         \* history: the (scope, class, name) bindings made by the Imports printed so far

gvars == <<g_slots, g_kind, g_users, g_last, g_calls>>

pvars == <<additional_imports, aliases, registered, repeated, imported, p_steps, default_precision, p_out>>

lvars == <<lw_chain, lw_term, lw_expr, lw_out>>

tvars == <<t_stack, t_scope, t_parent, t_set, t_exit, t_status, t_collector, t_printed,
           t_last, t_text>>

vars == <<g_slots, g_kind, g_users, g_last, g_calls,
          additional_imports, aliases, registered, repeated, imported, p_steps, default_precision, p_out,
          lw_chain, lw_term, lw_expr, lw_out,
          t_stack, t_scope, t_parent, t_set, t_exit, t_status, t_collector, t_printed,
          t_last, t_text,
          o_stmt, o_asserts, o_status, o_node, o_errors, o_code,
          s_stage, s_args, s_status, s_slice, s_str,
          d_given, d_expr, d_code, d_status, d_prints, d_ignore,
          i_lines, i_out, i_k,
          u_errors, u_target, u_printers, u_phase, u_reset, u_ops, u_actor,
          o_version, o_parses,
          k_pc, k_lock,
          c_ignore, c_last, c_code, c_after, c_steps,
          a_scope, a_bound>>

ovars == <<o_stmt, o_asserts, o_status, o_node, o_errors, o_code>>

svars == <<s_stage, s_args, s_status, s_slice, s_str>>

dvars == <<d_given, d_expr, d_code, d_status, d_prints, d_ignore>>

ivars == <<i_lines, i_out, i_k>>

uvars == <<u_errors, u_target, u_printers, u_phase, u_reset, u_ops, u_actor>>

vvars == <<o_version, o_parses>>

kvars == <<k_pc, k_lock>>

cvars == <<c_ignore, c_last, c_code, c_after, c_steps>>

avars == <<a_scope, a_bound>>

\* What an operation on one part leaves alone: the variables of the others.
notGraph    == <<pvars, lvars, tvars, ovars, svars, dvars, ivars, uvars, vvars, kvars, cvars, avars>>
notPrinter  == <<gvars, lvars, tvars, ovars, svars, dvars, ivars, uvars, vvars, kvars, cvars, avars>>
notLowering == <<gvars, aliases, registered, repeated, imported, p_steps, default_precision, p_out, tvars,
                 ovars, svars, dvars, ivars, uvars, vvars, kvars, cvars, avars>>
notTraversal == <<gvars, aliases, registered, repeated, imported, p_steps, default_precision, p_out, lvars,
                  ovars, svars, dvars, ivars, uvars, vvars, kvars, cvars, avars>>
notDirectives == <<gvars, pvars, lvars, tvars, svars, dvars, ivars, uvars, vvars, kvars, cvars, avars>>
notSlice == <<gvars, pvars, lvars, tvars, ovars, dvars, ivars, uvars, vvars, kvars, cvars, avars>>
notDefinitions == <<gvars, aliases, registered, repeated, imported, p_steps, default_precision, p_out,
                    lvars, tvars, ovars, svars, ivars, uvars, vvars, kvars, cvars, avars>>
notIndent == <<gvars, pvars, lvars, tvars, ovars, svars, dvars, uvars, vvars, kvars, cvars, avars>>
notUnits == <<gvars, pvars, lvars, tvars, ovars, svars, dvars, ivars, vvars, kvars, cvars, avars>>
notParsing == <<gvars, pvars, lvars, tvars, svars, dvars, ivars, uvars, kvars, cvars, avars>>
notLock == <<gvars, pvars, lvars, tvars, ovars, svars, dvars, ivars, uvars, vvars, cvars, avars>>
notCalls == <<gvars, pvars, lvars, tvars, ovars, svars, dvars, ivars, uvars, vvars, kvars, avars>>
notAliasScopes == <<gvars, lvars, tvars, ovars, svars, dvars, ivars, uvars, vvars, kvars, cvars>>

(***************************************************************************)
(* Part 1. The node graph: creation, substitute, and the substitutions of  *)
(* the comprehension lowering.                                             *)
(***************************************************************************)

\* Largest number of nodes a graph of the model holds.
MaxNodes == 4

\* Largest number of substitute calls and lowering steps of one run.
MaxCalls == 2

NodeIds == 1..MaxNodes

Range(s) == {s[i] : i \in DOMAIN s}

\* The graph as one value, so that operations compose.
Graph == [slots |-> g_slots, kind |-> g_kind, users |-> g_users]

\* Nodes that are reached from root by descending through owned children,
\* never descending into the node being replaced (substitute replaces such a
\* child and does not visit it).
RECURSIVE Visited(_, _, _, _)
Visited(G, frontier, old, seen) ==
    IF frontier = {} THEN seen
    ELSE LET n    == CHOOSE x \in frontier : TRUE
             kids == {c \in Range(G.slots[n]) : c # old}
         IN Visited(G, (frontier \cup (kids \ (seen \cup {n}))) \ {n}, old, seen \cup {n})

\* Descendants of a node (the node included).
Descendants(G, n) == Visited(G, {n}, 0, {})

\* The nodes at or below root that hold old in a slot.
Touched(G, root, old) ==
    {m \in Visited(G, {root}, old, {}) : old \in Range(G.slots[m])}

\* substitute(old, new) called on root: every slot holding old, in root and in
\* the nodes below it, is made to hold new, and the reverse index of both
\* nodes is updated in the same step.
Substitute(G, root, old, new) ==
    LET touched == Touched(G, root, old)
        slots2  == [m \in NodeIds |->
                      IF m \in touched
                      THEN [i \in DOMAIN G.slots[m] |->
                              IF G.slots[m][i] = old THEN new ELSE G.slots[m][i]]
                      ELSE G.slots[m]]
        users2  == [n \in NodeIds |->
                      LET removed == IF n = old THEN G.users[n] \ touched ELSE G.users[n]
                      IN IF n = new THEN removed \cup touched ELSE removed]
    IN [G EXCEPT !.slots = slots2, !.users = users2]

\* A plausible slip: the slot is rebound without telling the reverse index.
SubstituteSlotOnly(G, root, old, new) ==
    [Substitute(G, root, old, new) EXCEPT !.users = G.users]

\* The same slip in the lowering step.
LoweringSubstituteSlotOnly(G, b, func_for) ==
    SubstituteSlotOnly(G, b, G.slots[func_for][1], func_for)

\* The statement of a lowering step: b.substitute(func_for.lhs, func_for).
LoweringSubstitute(G, b, func_for) ==
    Substitute(G, b, G.slots[func_for][1], func_for)

\* for b in body: b.substitute(func_for.lhs, func_for), b in the order of body.
RECURSIVE SubstituteAll(_, _, _)
SubstituteAll(G, body, func_for) ==
    IF body = <<>> THEN G
    ELSE SubstituteAll(LoweringSubstitute(G, Head(body), func_for), Tail(body), func_for)

\* while isinstance(body[0], FunctionalFor): pop it and substitute it for its
\* lhs in the statements that remain. The loop reads body[0] of a list that
\* may have become empty; the graph keeps the substitutions done until then.
RECURSIVE PopFunctionalFors(_, _)
PopFunctionalFors(G, body) ==
    IF body = <<>> THEN G
    ELSE IF G.kind[Head(body)] = "FunctionalFor"
         THEN PopFunctionalFors(SubstituteAll(G, Tail(body), Head(body)), Tail(body))
         ELSE G

\* The classes of the nodes of the model and the children each owns.
NodeKinds == {"Variable", "Assign", "FunctionalFor", "CodeBlock"}

\* The semantic stage builds a statement bottom-up: its variables, then the
\* comprehensions, then the assignments that use them, then the blocks.
KindRank(kind) ==
    CASE kind = "free" -> 0
      [] kind = "Variable" -> 1
      [] kind = "FunctionalFor" -> 2
      [] kind = "Assign" -> 3
      [] kind = "CodeBlock" -> 4

\* A Variable owns nothing; an Assign owns its lhs (a Variable) and its rhs
\* (an expression: a Variable or a comprehension); a FunctionalFor owns its
\* lhs; a CodeBlock owns one or two statements.
ChildrenOf(G, kind, existing) ==
    LET variables  == {n \in existing : G.kind[n] = "Variable"}
        exprs      == {n \in existing : G.kind[n] \in {"Variable", "FunctionalFor"}}
        statements == {n \in existing : G.kind[n] \in {"Assign", "FunctionalFor"}}
    IN CASE kind = "Variable"      -> {<<>>}
         [] kind = "Assign"        -> {<<l, r>> : l \in variables, r \in exprs}
         [] kind = "FunctionalFor" -> {<<l>> : l \in variables}
         [] kind = "CodeBlock"     -> {<<a>> : a \in statements}
                                      \cup {<<a, b>> : a \in statements, b \in statements}

Existing == {n \in NodeIds : g_kind[n] # "free"}

GraphInit ==
    /\ g_slots = [n \in NodeIds |-> <<>>]
    /\ g_kind  = [n \in NodeIds |-> "free"]
    /\ g_users = [n \in NodeIds |-> {}]
    /\ g_last  = "init"
    /\ g_calls = 0

GraphIdle ==
    /\ g_slots = <<>>
    /\ g_kind  = <<>>
    /\ g_users = <<>>
    /\ g_last  = "idle"
    /\ g_calls = 0

\* createNode(children): the new node becomes a user of each child it owns.
CreateNode ==
    /\ Existing # NodeIds
    /\ \E kind \in NodeKinds :
         \E children \in ChildrenOf(Graph, kind, Existing) :
            /\ \A m \in Existing : KindRank(g_kind[m]) <= KindRank(kind)
            /\ LET id == CHOOSE n \in NodeIds :
                            /\ g_kind[n] = "free"
                            /\ \A m \in NodeIds : g_kind[m] = "free" => n <= m
               IN /\ g_kind'  = [g_kind EXCEPT ![id] = kind]
                  /\ g_slots' = [g_slots EXCEPT ![id] = children]
                  /\ g_users' = [n \in NodeIds |->
                                   IF n \in Range(children) THEN g_users[n] \cup {id}
                                   ELSE g_users[n]]
                  /\ g_last'  = "create"
                  /\ g_calls' = g_calls
                  /\ UNCHANGED notGraph

\* root.substitute(old, new), for a slot that exists (substitute on a slot
\* that does not exist is a programmer error), on a graph that stays acyclic.
SubstituteCall ==
    \E old \in Existing, new \in Existing, root \in Existing :
        /\ g_calls < MaxCalls
        /\ g_users[old] # {}
        /\ Touched(Graph, root, old) # {}
        /\ root \notin Descendants(Graph, new)
        /\ \E G2 \in {Substitute(Graph, root, old, new)} :
              /\ g_slots' = G2.slots
              /\ g_users' = G2.users
              /\ g_kind'  = g_kind
              /\ g_last'  = "substitute"
              /\ g_calls' = g_calls + 1
              /\ UNCHANGED notGraph

\* The lowering reaches a CodeBlock whose body starts with a FunctionalFor
\* and takes the leading FunctionalFor nodes out of the copy of its body.
LowerCodeBlock ==
    \E b \in Existing :
        /\ g_calls < MaxCalls
        /\ g_kind[b] = "CodeBlock"
        /\ g_kind[Head(g_slots[b])] = "FunctionalFor"
        /\ \E G2 \in {PopFunctionalFors(Graph, g_slots[b])} :
              /\ g_slots' = G2.slots
              /\ g_users' = G2.users
              /\ g_kind'  = g_kind
              /\ g_last'  = "lowering"
              /\ g_calls' = g_calls + 1
              /\ UNCHANGED notGraph

GraphNext == CreateNode \/ SubstituteCall \/ LowerCodeBlock

\* C1: the users reported for a node are exactly the nodes that hold it in
\* one of their owned-child slots, after any creations and substitutions.
Holders(n) == {m \in NodeIds : n \in Range(g_slots[m])}

C1_ReverseIndexConsistent ==
    \A n \in NodeIds : g_users[n] = Holders(n)

\* A lowering step has rebound a slot: the replaced child lost a user and the
\* comprehension node gained one.
C1_Witness ==
    /\ g_last = "lowering"
    /\ \E ff \in NodeIds :
         /\ g_kind[ff] = "FunctionalFor"
         /\ \E m \in NodeIds : g_kind[m] = "Assign" /\ ff \in Range(g_slots[m])
         /\ g_users[g_slots[ff][1]] = {ff}

(***************************************************************************)
(* Part 2. The printer's import table and the printers of typed values.    *)
(*                                                                         *)
(* A name is a base and a width suffix: 'int64' is base "int" with suffix  *)
(* <<64>>, 'int' is base "int" with no suffix (<<>>). str(n) appended to   *)
(* a name appends the number n to its suffix.                              *)
(***************************************************************************)

Name(base) == [base |-> base, suffix |-> <<>>]

\* name + str(n)
WithSuffix(name, n) == [name EXCEPT !.suffix = Append(name.suffix, n)]

NoName == Name("")

\* AsName(name, target): the object that is imported and the name it is bound to.
AsName(name, target) == [name |-> name, target |-> target]

\* Import(source, target) of one target: its targets are a set of AsName
\* objects (every target has an object and a bound name), a plain symbol
\* being bound under its own name.
Import(source, target) ==
    [source |-> source,
     target |-> {IF "base" \in DOMAIN target THEN AsName(target, target) ELSE target}]

SourceIndex(imports, source) ==
    IF \E i \in DOMAIN imports : imports[i].source = source
    THEN CHOOSE i \in DOMAIN imports : imports[i].source = source
    ELSE 0

\* if alias and alias != target: target = AsName(target, alias)
AliasedTarget(target, alias) ==
    IF alias # NoName /\ alias # target THEN AsName(target, alias) ELSE target

\* self._additional_imports.setdefault(source, (set(), [])): the dictionary
\* keeps the order in which the sources were first registered, each entry
\* holding (set of targets, list of Import objects).
SetDefault(imports, source) ==
    IF SourceIndex(imports, source) = 0
    THEN Append(imports, [source |-> source, names |-> {}, imports |-> <<>>])
    ELSE imports

\* src_info[0].update(import_obj.target); src_info[1].append(import_obj)
AddImport(imports, source, import_obj) ==
    LET i == SourceIndex(imports, source)
    IN [imports EXCEPT ![i] =
          [source  |-> source,
           names   |-> imports[i].names \cup import_obj.target,
           imports |-> Append(imports[i].imports, import_obj)]]

\* A plausible slip: the Import is appended without looking at the set.
InsertNewImportAlways(imports, source, target, alias) ==
    AddImport(SetDefault(imports, source), source, Import(source, AliasedTarget(target, alias)))

\* insert_new_import(source, target, alias)
InsertNewImport(imports, source, target, alias) ==
    LET import_obj == Import(source, AliasedTarget(target, alias))
        imports1   == SetDefault(imports, source)
        src_info   == imports1[SourceIndex(imports1, source)]
    IN IF \E t \in import_obj.target : t \notin src_info.names
       THEN AddImport(imports1, source, import_obj)
       ELSE imports1

RECURSIVE Flatten(_)
Flatten(imports) ==
    IF imports = <<>> THEN <<>> ELSE Head(imports).imports \o Flatten(Tail(imports))

\* get_additional_imports(): the Import objects of all sources, in order.
GetAdditionalImports(imports) == Flatten(imports)

\* self._aliases.get(cls, default)
AliasGet(al, cls, default) == IF cls \in DOMAIN al THEN al[cls] ELSE default

\* type(expr) of a typed node: the class of the node at that precision.
Class(node, precision) == WithSuffix(Name(node), precision)

\* The marker of the default precision.
DefaultMarker == -1

\* The precisions (in bytes) and the native types of the model.
Precisions == {DefaultMarker, 4, 8}
Dtypes == {"int", "float", "complex"}

\* What a leaf printer returns, with the import table it leaves: the node
\* printed and the type or constructor name that appears in the text.
Printed(imports, node, precision, typename) ==
    [imports |-> imports,
     out     |-> [node |-> node, precision |-> precision, typename |-> typename]]

\* _print_PythonInt and _print_PythonFloat: the same code with name = 'int'
\* and name = 'float'.
PrintPythonNumber(imports, al, node, base, precision) ==
    IF precision # -1
    THEN LET type_name == WithSuffix(Name(base), precision * 8)
             cls       == Class(node, precision)
             name      == AliasGet(al, cls, type_name)
         IN Printed(IF name = type_name
                    THEN InsertNewImport(imports, "numpy", AsName(cls, name), NoName)
                    ELSE imports,
                    node, precision, name)
    ELSE Printed(imports, node, precision, Name(base))

PrintPythonInt(imports, al, precision) ==
    PrintPythonNumber(imports, al, "PythonInt", "int", precision)

PrintPythonFloat(imports, al, precision) ==
    PrintPythonNumber(imports, al, "PythonFloat", "float", precision)

\* expr.name of a NumpyComplex node: 'complex64' or 'complex128'.
NumpyComplexName(precision) == WithSuffix(Name("complex"), precision * 16)

PrintNumpyComplex(imports, al, precision) ==
    IF precision # -1
    THEN LET cls  == Class("NumpyComplex", precision)
             name == AliasGet(al, cls, NumpyComplexName(precision))
         IN Printed(IF name = NumpyComplexName(precision)
                    THEN InsertNewImport(imports, "numpy",
                                         AsName(cls, NumpyComplexName(precision)), NoName)
                    ELSE imports,
                    "NumpyComplex", precision, name)
    ELSE Printed(imports, "NumpyComplex", precision, Name("complex"))

\* factor = 16 if dtype == 'complex' else 8
Factor(dtype) == IF dtype = "complex" THEN 16 ELSE 8

\* _print_NumpyLinspace: dtype += str(expr.precision*factor), always.
PrintNumpyLinspace(imports, al, dtype, precision) ==
    Printed(imports, "NumpyLinspace", precision,
            WithSuffix(Name(dtype), precision * Factor(dtype)))

\* A slip the other way: the width is never appended.
PrintNumpyFillNoWidth(imports, al, node, dtype, precision, default) ==
    Printed(imports, node, precision, Name(dtype))

\* _print_NumpyFull and _print_NumpyAutoFill: the width is appended when the
\* precision differs from default_precision[str(expr.dtype)].
PrintNumpyFill(imports, al, node, dtype, precision, default) ==
    Printed(imports, node, precision,
            IF precision # default
            THEN WithSuffix(Name(dtype), precision * Factor(dtype))
            ELSE Name(dtype))

\* DtypePrecisionToCastFunction[dtype.name][precision].name: the constructor
\* of that kind and precision.
CastName(dtype, precision) == WithSuffix(Name(dtype), precision * Factor(dtype))

LiteralDtype(node) ==
    CASE node = "LiteralInteger" -> "int"
      [] node = "LiteralFloat"   -> "float"
      [] node = "LiteralComplex" -> "complex"
      [] OTHER                   -> "str"

Literals == {"LiteralInteger", "LiteralFloat", "LiteralComplex", "LiteralString"}

\* _print_Literal: repr(expr.python_value) for a literal that is not numeric
\* or has the default precision, the cast function applied to it otherwise.
PrintLiteral(imports, al, node, precision) ==
    IF node \notin {"LiteralInteger", "LiteralFloat", "LiteralComplex"} \/ precision = -1
    THEN Printed(imports, node, precision, NoName)
    ELSE LET cast_name == CastName(LiteralDtype(node), precision)
             cast_func == Class(node, precision)
             name      == AliasGet(al, cast_func, cast_name)
         IN Printed(IF name = cast_name
                    THEN InsertNewImport(imports, "numpy", AsName(cast_func, cast_name), NoName)
                    ELSE imports,
                    node, precision, name)

\* _print_NumpyArray (the definition in force, the second of the class).
PrintNumpyArray(imports, al) ==
    LET name == AliasGet(al, Name("NumpyArray"), Name("array"))
    IN Printed(IF name = Name("array")
               THEN InsertNewImport(imports, "numpy",
                                    AsName(Name("NumpyArray"), Name("array")), NoName)
               ELSE imports,
               "NumpyArray", 0, name)

\* _print_PyccelArraySize
PrintPyccelArraySize(imports, al) ==
    LET name == AliasGet(al, Name("NumpySize"), Name("size"))
    IN Printed(IF name = Name("size")
               THEN InsertNewImport(imports, "numpy",
                                    AsName(Name("PyccelArraySize"), Name("size")), NoName)
               ELSE imports,
               "PyccelArraySize", 0, name)

\* PythonCodePrinter.__init__
PrinterInit ==
    /\ additional_imports = <<>>
    /\ aliases = <<>>
    /\ registered = {}
    /\ repeated = {}
    /\ imported = {}
    /\ p_steps = 0
    /\ p_out = [node |-> "none", precision |-> 0, typename |-> NoName]

PrinterIdle ==
    /\ additional_imports = <<>>
    /\ aliases = <<>>
    /\ registered = {}
    /\ repeated = {}
    /\ imported = {}
    /\ p_steps = 0
    /\ default_precision = 0
    /\ p_out = "idle"

\* Largest number of printer calls of one run.
MaxPrints == 3

\* A leaf printer has run and returned r.
Returned(r) ==
    /\ p_steps < MaxPrints
    /\ p_steps' = p_steps + 1
    /\ additional_imports' = r.imports
    /\ p_out' = r.out
    /\ UNCHANGED <<aliases, registered, repeated, imported, default_precision>>
    /\ UNCHANGED notPrinter

DoPrintPythonInt ==
    \E precision \in Precisions : Returned(PrintPythonInt(additional_imports, aliases, precision))

DoPrintPythonFloat ==
    \E precision \in Precisions : Returned(PrintPythonFloat(additional_imports, aliases, precision))

DoPrintNumpyComplex ==
    \E precision \in Precisions : Returned(PrintNumpyComplex(additional_imports, aliases, precision))

DoPrintLiteral ==
    \E node \in Literals, precision \in Precisions :
        Returned(PrintLiteral(additional_imports, aliases, node, precision))

DoPrintNumpyLinspace ==
    \E dtype \in Dtypes, precision \in Precisions :
        Returned(PrintNumpyLinspace(additional_imports, aliases, dtype, precision))

DoPrintNumpyFull ==
    \E dtype \in Dtypes, precision \in Precisions :
        Returned(PrintNumpyFill(additional_imports, aliases, "NumpyFull", dtype, precision,
                                default_precision))

DoPrintNumpyAutoFill ==
    \E dtype \in Dtypes, precision \in Precisions :
        Returned(PrintNumpyFill(additional_imports, aliases, "NumpyAutoFill", dtype, precision,
                                default_precision))

DoPrintNumpyArray == Returned(PrintNumpyArray(additional_imports, aliases))

DoPrintPyccelArraySize == Returned(PrintPyccelArraySize(additional_imports, aliases))

\* pyccel_builtin_import_registry[source][name].cls_name: the class of a
\* library symbol.
Registry(source, name) ==
    CASE source = "numpy" /\ name = Name("array") -> Name("NumpyArray")
      [] source = "numpy" /\ name = Name("size") -> Name("NumpySize")
      [] OTHER -> NoName

\* _print_AsName
PrintAsName(expr) ==
    IF expr.name = expr.target THEN <<expr.name.base>>
    ELSE <<expr.name.base, "as", expr.target.base>>

\* self._aliases.update([(cls_name, t.target) for t in target if t.name != t.target])
RECURSIVE AliasesUpdate(_, _, _)
AliasesUpdate(al, source, target) ==
    IF target = <<>> THEN al
    ELSE LET t   == Head(target)
             cls == Registry(source, t.name)
         IN  AliasesUpdate(IF t.name # t.target
                           THEN [c \in DOMAIN al \cup {cls} |->
                                    IF c = cls THEN t.target ELSE al[c]]
                           ELSE al,
                           source, Tail(target))

\* ', '.join(self._print(t) for t in target)
RECURSIVE JoinTargets(_)
JoinTargets(target) ==
    IF target = <<>> THEN <<>>
    ELSE IF Len(target) = 1 THEN PrintAsName(target[1])
    ELSE PrintAsName(target[1]) \o <<", ">> \o JoinTargets(Tail(target))

\* _print_Import of an Import of a library (no source_module, a source and
\* targets that no swap table changes), target being list(set(target)) in
\* the order the set gives.
PrintImport(al, source, target) ==
    IF target = <<>> THEN [aliases |-> al, code |-> <<"import", source, "\n">>]
    ELSE [aliases |-> IF source = "numpy" THEN AliasesUpdate(al, source, target) ELSE al,
          code    |-> <<"from", source, "import">> \o JoinTargets(target) \o <<"\n">>]

\* Largest number of targets of an Import.
MaxTargets == 2

\* The targets of the Imports of the source.
SourceTargets ==
    {AsName(Name("array"), Name("array")), AsName(Name("array"), Name("a")),
     AsName(Name("size"), Name("size")), AsName(Name("size"), Name("s"))}

\* The lists a set can give.
Orderings(S) ==
    {order \in [1..Cardinality(S) -> S] : \A i, j \in 1..Cardinality(S) : order[i] = order[j] => i = j}

\* The target lists of the Import nodes: a target may stand more than once.
TargetLists == UNION {[1..n -> SourceTargets] : n \in 0..MaxTargets}

\* The Import node has the target list given; set(target) holds each
\* distinct target once and list() takes them in the order of the set, which
\* follows the hash values of the targets and not the list.
DoPrintImport ==
    \E given \in TargetLists :
     \E targets \in {Range(given)} :
      \E target \in Orderings(targets) :
        \E r \in {PrintImport(aliases, "numpy", target)} :
           /\ p_steps < MaxPrints
           /\ p_steps' = p_steps + 1
           /\ aliases' = r.aliases
           /\ imported' = imported \cup {<<Registry("numpy", t.name), t.target>> : t \in targets}
           /\ p_out' = [node |-> "Import", precision |-> 0, typename |-> NoName, code |-> r.code,
                        target |-> given]
           /\ UNCHANGED <<additional_imports, registered, repeated, default_precision>>
           /\ UNCHANGED notPrinter

\* The distinct elements of a list, in the order of their first occurrence.
RECURSIVE FirstOccurrences(_)
FirstOccurrences(list) ==
    IF list = <<>> THEN <<>>
    ELSE LET front == FirstOccurrences(SubSeq(list, 1, Len(list) - 1))
             last  == list[Len(list)]
         IN  IF last \in Range(front) THEN front ELSE Append(front, last)

\* C26: the line printed for an Import lists each distinct target once, in
\* the order of first occurrence in the target list of the node, so the
\* text is the same in every run.
C26_ImportTextDeterministic ==
    p_out.node = "Import"
    => p_out.code = PrintImport(<<>>, "numpy", FirstOccurrences(p_out.target)).code

\* The class whose alias the printer of a node looks up.
ReferredClass(node) ==
    CASE node = "NumpyArray" -> Name("NumpyArray")
      [] node = "PyccelArraySize" -> Name("NumpySize")
      [] OTHER -> NoName

\* C15: when an Import of a library symbol has been printed, with an alias
\* or under the symbol's own name, a later reference to the symbol is
\* printed under a name the source bound and registers no synthesized
\* import.
C15_NoSynthesizedImportWhenImported ==
    [][(/\ p_steps' = p_steps + 1
        /\ p_out'.node \in {"NumpyArray", "PyccelArraySize"}
        /\ \E pair \in imported : pair[1] = ReferredClass(p_out'.node))
       => (/\ <<ReferredClass(p_out'.node), p_out'.typename>> \in imported
           /\ additional_imports' = additional_imports)]_vars

\* The sources, symbols and aliases of the registrations a caller makes.
ApiSources == {"numpy", "math"}
ApiSymbols == {Name("array"), Name("sin")}
ApiAliases == {NoName, Name("sin"), Name("a"), Name("b")}

\* Largest number of registrations of one run.
MaxRegistrations == 3

\* insert_new_import(source, target, alias) called from outside the printers.
DoInsertNewImport ==
    \E source \in ApiSources, target \in ApiSymbols, alias \in ApiAliases :
        LET key == <<source, target, alias>>
        IN /\ p_steps < MaxRegistrations
           /\ p_steps' = p_steps + 1
           /\ additional_imports' = InsertNewImport(additional_imports, source, target, alias)
           /\ registered' = registered \cup {key}
           /\ repeated' = IF key \in registered THEN repeated \cup {key} ELSE repeated
           /\ p_out' = [node |-> "insert_new_import", precision |-> 0, typename |-> target]
           /\ UNCHANGED <<aliases, imported, default_precision>>
           /\ UNCHANGED notPrinter

\* The number of Import objects returned by get_additional_imports that
\* import a symbol from a source, under any name.
CountImportsOfSymbol(source, symbol) ==
    LET all == GetAdditionalImports(additional_imports)
    IN Cardinality({i \in DOMAIN all :
                      all[i].source = source /\ \E t \in all[i].target : t.name = symbol})

\* The number of those that import it under one bound name.
CountImportsOfBinding(source, binding) ==
    LET all == GetAdditionalImports(additional_imports)
    IN Cardinality({i \in DOMAIN all : all[i].source = source /\ binding \in all[i].target})

\* The name a registration binds: the alias, or the symbol's own name when
\* no alias is given or the alias is the symbol's name.
Binding(symbol, alias) ==
    IF alias # NoName /\ alias # symbol THEN AsName(symbol, alias) ELSE AsName(symbol, symbol)

OwnBinding(key) ==
    \A other \in registered :
        (other[1] = key[1] /\ other[2] # key[2])
            => Binding(other[2], other[3]).target # Binding(key[2], key[3]).target

\* C2 (amended): every registered (source, symbol, bound name), the name not
\* being bound to another symbol of the source, is imported under that name
\* by exactly one Import statement, however often it was registered and
\* whatever was registered in between, and a registration that repeats an
\* earlier one leaves the import table as it was.
C2_ImportTableInv ==
    \A key \in registered :
        OwnBinding(key) => CountImportsOfBinding(key[1], Binding(key[2], key[3])) = 1

TypedNodes == {"PythonInt", "PythonFloat", "NumpyComplex", "LiteralInteger", "LiteralFloat",
               "LiteralComplex", "NumpyLinspace", "NumpyFull", "NumpyAutoFill"}

\* C9: a value whose precision is the default marker is printed without a
\* numeric width suffix on its type or constructor name.
C9_NoWidthSuffixAtDefault ==
    (p_out.node \in TypedNodes /\ p_out.precision = DefaultMarker)
        => p_out.typename.suffix = <<>>

(***************************************************************************)
(* Part 3. The lowering of a comprehension and its printers.               *)
(*                                                                         *)
(* Here a node is a value: a record whose field k is the class of the      *)
(* node and whose other fields are its attributes. Two variables are the   *)
(* same object exactly when they have the same name.                       *)
(***************************************************************************)

Variable(name) == [k |-> "Variable", name |-> name]

PyccelMul(a, b) == [k |-> "PyccelMul", args |-> <<a, b>>]

PythonMax(args) == [k |-> "PythonMax", args |-> args]

PythonRange(stop) == [k |-> "PythonRange", stop |-> stop]

Assign(lhs, rhs) == [k |-> "Assign", lhs |-> lhs, rhs |-> rhs]

Pass == [k |-> "Pass"]

For(iterable, body) == [k |-> "For", iterable |-> iterable, body |-> body]

CodeBlock(body) == [k |-> "CodeBlock", body |-> body]

\* FunctionalFor(loops, expr, lhs, indices, index): cls is the class of the
\* node (FunctionalFor, or a GeneratorComprehension: FunctionalSum,
\* FunctionalMax, FunctionalMin), loops stands for loops[1], and users
\* holds the classes of the nodes that use the node.
FunctionalFor(cls, loops, lhs, indices, index, users) ==
    [k |-> "FunctionalFor", cls |-> cls, loops |-> loops, lhs |-> lhs,
     indices |-> indices, index |-> index, users |-> users]

\* The absent node.
NoNode == [k |-> "None"]

\* node.substitute(old, new) on a tree: every child equal to old is
\* replaced by new, in the node and in all its descendants; new itself is
\* not entered.
RECURSIVE SubstituteTree(_, _, _)
SubstituteTree(node, old, new) ==
    LET sub(c) == IF c = old THEN new ELSE SubstituteTree(c, old, new)
    IN CASE node.k \in {"PyccelMul", "PythonMax"} ->
                [node EXCEPT !.args = [i \in DOMAIN node.args |-> sub(node.args[i])]]
         [] node.k = "Assign" ->
                [node EXCEPT !.lhs = sub(node.lhs), !.rhs = sub(node.rhs)]
         [] node.k = "For" ->
                [node EXCEPT !.iterable = sub(node.iterable), !.body = sub(node.body)]
         [] node.k = "CodeBlock" ->
                [node EXCEPT !.body = [i \in DOMAIN node.body |-> sub(node.body[i])]]
         [] node.k = "FunctionalFor" ->
                [node EXCEPT !.loops = sub(node.loops), !.lhs = sub(node.lhs)]
         [] OTHER -> node

\* A plausible slip: the leading comprehensions are removed from the block
\* and nothing is put in their place in the statements that remain.
RECURSIVE PopLeadingNoSubstitute(_, _)
PopLeadingNoSubstitute(popped, body) ==
    IF body # <<>> /\ Head(body).k = "FunctionalFor"
    THEN PopLeadingNoSubstitute(Append(popped, Head(body)), Tail(body))
    ELSE [popped |-> popped, rest |-> body]

\* while isinstance(body[0], FunctionalFor): func_for = body.pop(0);
\*     for b in body: b.substitute(func_for.lhs, func_for)
\* popped holds the nodes removed, rest the statements that remain.
RECURSIVE PopLeading(_, _)
PopLeading(popped, body) ==
    IF body # <<>> /\ Head(body).k = "FunctionalFor"
    THEN LET func_for == Head(body)
         IN PopLeading(Append(popped, func_for),
                       [i \in 1..(Len(body) - 1) |->
                           SubstituteTree(body[i + 1], func_for.lhs, func_for)])
    ELSE [popped |-> popped, rest |-> body]

\* any(not(isinstance(b, Assign) and b.lhs is dummy_var) for b in body[1:])
UnnecessaryStatements(body, dummy_var) ==
    \E i \in 2..Len(body) : ~(body[i].k = "Assign" /\ body[i].lhs = dummy_var)

\* What the lowering did: how it ended (status is "ok" when it returned,
\* the name of the exception when it raised), the (body, iterables) it
\* returned, the node as the substitutions left it, and for each block it
\* went through the statements of the block, the statements left after the
\* leading comprehensions were removed, the accumulator searched for and
\* whether the descent went on.
Lowered(status, body, iterables, blocks, node) ==
    [status |-> status, body |-> body, iterables |-> iterables, blocks |-> blocks,
     node |-> node]

BlockVisit(stmts, rest, dummy_var, accepted) ==
    [stmts |-> stmts, rest |-> rest, dummy |-> dummy_var, accepted |-> accepted]

\* _find_functional_expr_and_iterables(expr); Walk is its while loop, from
\* the node body on.
RECURSIVE FindFunctionalExprAndIterables(_), Walk(_, _, _, _)
Walk(body, dummy_var, iterables, blocks) ==
    IF body.k = "Assign" THEN Lowered("ok", body, iterables, blocks, body)
    ELSE IF body.k = "CodeBlock"
    THEN LET p == PopLeading(<<>>, body.body)
         IN IF p.rest = <<>>
            THEN Lowered("IndexError", NoNode, <<>>,
                         Append(blocks, BlockVisit(body.body, p.rest, dummy_var, FALSE)),
                         CodeBlock(p.popped))
            ELSE IF Len(p.rest) > 1 /\ UnnecessaryStatements(p.rest, dummy_var)
            THEN Lowered("NotImplementedError", NoNode, <<>>,
                         Append(blocks, BlockVisit(body.body, p.rest, dummy_var, FALSE)),
                         CodeBlock(p.popped \o p.rest))
            ELSE LET r == Walk(p.rest[1], dummy_var, iterables,
                               Append(blocks, BlockVisit(body.body, p.rest, dummy_var, TRUE)))
                 IN [r EXCEPT !.node = CodeBlock(p.popped \o <<r.node>> \o Tail(p.rest))]
    ELSE IF body.k = "For"
    THEN LET r == Walk(body.body, dummy_var, Append(iterables, body.iterable), blocks)
         IN [r EXCEPT !.node = [body EXCEPT !.body = r.node]]
    ELSE IF body.k = "FunctionalFor"
    THEN LET r == FindFunctionalExprAndIterables(body)
         IN IF r.status = "ok"
            THEN Lowered("ok", r.body, iterables \o r.iterables, blocks \o r.blocks, r.node)
            ELSE [r EXCEPT !.blocks = blocks \o r.blocks]
    ELSE Lowered("NotImplementedError", NoNode, <<>>, blocks, body)

FindFunctionalExprAndIterables(expr) ==
    LET r == Walk(expr.loops, expr.index, <<>>, <<>>)
    IN [r EXCEPT !.node = [expr EXCEPT !.loops = r.node]]

\* zip(expr.indices, iterators): the pairs up to the end of the shorter list.
Zip(indices, iterators) ==
    LET n == IF Len(indices) < Len(iterators) THEN Len(indices) ELSE Len(iterators)
    IN [i \in 1..n |-> <<indices[i], iterators[i]>>]

\* What the printer of a comprehension did: how it ended, what lowering
\* returned, and the parts of the text returned: the form of the text
\* ("statement" for '<lhs> = <name>(...)' with its line terminator,
\* "expression" for '<name>(...)'), the name called, the element expression
\* and the for clauses.
PrintedComprehension(status, lowered, form, name, element, for_loops) ==
    [status |-> status, body |-> lowered.body, iterables |-> lowered.iterables,
     blocks |-> lowered.blocks, form |-> form, name |-> name, element |-> element,
     for_loops |-> for_loops]

NothingLowered == Lowered("none", NoNode, <<>>, <<>>, NoNode)

NothingPrinted == PrintedComprehension("none", NothingLowered, "none", NoName, NoNode, <<>>)

\* _print_FunctionalFor: the exception of a lowering failure goes through
\* the printer.
PrintFunctionalFor(imports, al, expr) ==
    LET r    == FindFunctionalExprAndIterables(expr)
        name == AliasGet(al, Name(expr.cls), Name("array"))
    IN IF r.status # "ok"
       THEN [imports |-> imports, node |-> r.node,
             out |-> PrintedComprehension(r.status, r, "none", NoName, NoNode, <<>>)]
       ELSE [imports |-> IF name = Name("array")
                         THEN InsertNewImport(imports, "numpy",
                                              AsName(Name("NumpyArray"), Name("array")), NoName)
                         ELSE imports,
             node |-> r.node,
             out |-> PrintedComprehension("ok", r, "statement", name, r.body.rhs,
                                          Zip(expr.indices, r.iterables))]

\* The name of a GeneratorComprehension: FunctionalSum.name, ...
ComprehensionName(cls) ==
    CASE cls = "FunctionalSum" -> Name("sum")
      [] cls = "FunctionalMax" -> Name("max")
      [] cls = "FunctionalMin" -> Name("min")
      [] OTHER -> NoName

\* [a for a in args if a != body.lhs]
RECURSIVE Without(_, _)
Without(args, lhs) ==
    IF args = <<>> THEN <<>>
    ELSE IF Head(args) = lhs THEN Without(Tail(args), lhs)
    ELSE <<Head(args)>> \o Without(Tail(args), lhs)

\* A plausible slip: the element expression is the right-hand side as it is.
ReductionElementKeepsLhs(body) == body.rhs

\* The element expression of a reduction: its accumulator is taken out of
\* the arguments of a max or min.
ReductionElement(body) ==
    LET rhs == body.rhs
    IN IF rhs.k \in {"PythonMax", "PythonMin"} /\ \E i \in DOMAIN rhs.args : rhs.args[i] = body.lhs
       THEN LET args == Without(rhs.args, body.lhs)
            IN IF Len(args) = 1 THEN args[1] ELSE [rhs EXCEPT !.args = args]
       ELSE rhs

\* _print_GeneratorComprehension
PrintGeneratorComprehension(imports, al, expr) ==
    LET r == FindFunctionalExprAndIterables(expr)
    IN IF r.status # "ok"
       THEN [imports |-> imports, node |-> r.node,
             out |-> PrintedComprehension(r.status, r, "none", NoName, NoNode, <<>>)]
       ELSE [imports |-> imports, node |-> r.node,
             out |-> PrintedComprehension("ok", r,
                        IF "FunctionalFor" \in expr.users THEN "expression" ELSE "statement",
                        ComprehensionName(expr.cls), ReductionElement(r.body),
                        Zip(expr.indices, r.iterables))]

\* Largest number of links (loops, blocks, nested comprehensions) between a
\* comprehension and the statement at the bottom of its nest, and largest
\* number of index variables of a comprehension.
MaxNest == 2
MaxIndices == 2

\* The accumulator of the comprehension printed, the accumulator of a
\* nested comprehension, and the temporary a nested comprehension is
\* assigned to.
Dummy == Variable("Dummy_0")
InnerDummy == Variable("Dummy_1")
Temporary == Variable("tmp")

ElementX == PyccelMul(Variable("x"), Variable("x"))
ElementTmp == PyccelMul(Temporary, Variable("x"))

\* A comprehension that stands as a statement of a block, before the
\* statement that uses its temporary.
LeadingComprehension ==
    FunctionalFor("FunctionalSum", For(PythonRange("m"), Assign(InnerDummy, ElementX)),
                  Temporary, <<Variable("j")>>, InnerDummy, {})

\* The links of a loop nest: a loop, a block (with the statements before
\* and after the one that holds the rest of the nest), a nested
\* comprehension.
ForLink(iterable) == [k |-> "For", iterable |-> iterable]
BlockLink(pre, post) == [k |-> "CodeBlock", pre |-> pre, post |-> post]
ComprehensionLink == [k |-> "FunctionalFor"]

Links ==
    {ForLink(PythonRange(stop)) : stop \in {"n", "m"}}
    \cup {BlockLink(pre, post) :
            pre \in {<<>>, <<LeadingComprehension>>},
            post \in {<<>>, <<Assign(Dummy, ElementX)>>, <<Assign(Variable("y"), ElementX)>>,
                      <<LeadingComprehension>>}}
    \cup {ComprehensionLink}

Chains == UNION {[1..n -> Links] : n \in 1..MaxNest}

\* The statements at the bottom of a nest.
Terminals ==
    {Assign(Dummy, ElementX), Assign(Dummy, ElementTmp),
     Assign(Dummy, PythonMax(<<Dummy, Variable("x")>>)),
     Assign(Dummy, PythonMax(<<Dummy, Variable("x"), Variable("y")>>)), Pass, CodeBlock(<<>>)}

\* The node a chain of links stands for.
RECURSIVE Build(_, _)
Build(chain, term) ==
    IF chain = <<>> THEN term
    ELSE LET inner == Build(Tail(chain), term)
             link  == Head(chain)
         IN CASE link.k = "For" -> For(link.iterable, inner)
              [] link.k = "CodeBlock" -> CodeBlock(link.pre \o <<inner>> \o link.post)
              [] OTHER -> FunctionalFor("FunctionalSum", inner, Variable("inner"),
                                        <<Variable("k")>>, InnerDummy, {})

\* The index variables of a comprehension with n of them.
IndexVariables(n) == [i \in 1..n |-> [k |-> "Variable", name |-> "i", n |-> i]]

\* The classes of comprehension printed, with the classes of their users.
Comprehensions ==
    {<<"FunctionalFor", {}>>, <<"FunctionalSum", {}>>, <<"FunctionalSum", {"FunctionalFor"}>>,
     <<"FunctionalMax", {}>>}

LoweringInit ==
    \E chain \in Chains, term \in Terminals, c \in Comprehensions, n \in 1..MaxIndices :
        /\ lw_chain = chain
        /\ lw_term = term
        /\ lw_expr = FunctionalFor(c[1], Build(chain, term), Variable("out"),
                                   IndexVariables(n), Dummy, c[2])
        /\ lw_out = NothingPrinted

LoweringIdle ==
    /\ lw_chain = <<>>
    /\ lw_term = NoNode
    /\ lw_expr = NoNode
    /\ lw_out = NothingPrinted

\* The printer of the comprehension has run: the node is as the lowering
\* left it.
PrintedNode(r) ==
    /\ lw_out.status = "none"
    /\ lw_out' = r.out
    /\ lw_expr' = r.node
    /\ additional_imports' = r.imports
    /\ UNCHANGED <<lw_chain, lw_term>>
    /\ UNCHANGED notLowering

DoPrintFunctionalFor ==
    /\ lw_expr.cls = "FunctionalFor"
    /\ PrintedNode(PrintFunctionalFor(additional_imports, aliases, lw_expr))

DoPrintGeneratorComprehension ==
    /\ lw_expr.cls # "FunctionalFor"
    /\ PrintedNode(PrintGeneratorComprehension(additional_imports, aliases, lw_expr))

\* The iterables of the loops of a chain, outermost first.
RECURSIVE ChainIterables(_)
ChainIterables(chain) ==
    IF chain = <<>> THEN <<>>
    ELSE IF Head(chain).k = "For" THEN <<Head(chain).iterable>> \o ChainIterables(Tail(chain))
    ELSE ChainIterables(Tail(chain))

\* A nest of loops, single-statement blocks and nested comprehensions.
SingleStatementNest(chain) ==
    /\ Len(chain) >= 1
    /\ \A i \in DOMAIN chain :
          chain[i].k = "CodeBlock" => (chain[i].pre = <<>> /\ chain[i].post = <<>>)

\* C4: for a comprehension whose body is a nest of loops, single-statement
\* blocks and nested comprehensions ending in one assignment, lowering
\* returns that assignment and the iterables of the loops, outermost first.
C4_LoweringRecoversNest ==
    (lw_out.status # "none" /\ SingleStatementNest(lw_chain) /\ lw_term.k = "Assign")
        => /\ lw_out.status = "ok"
           /\ lw_out.body = lw_term
           /\ lw_out.iterables = ChainIterables(lw_chain)

\* C5: when lowering returns a list of iterables whose length differs from
\* the number of index variables of the comprehension, the printer ends in
\* a failure and returns no text.
C5_LengthMismatchIsFatal ==
    (lw_out.body.k = "Assign" /\ Len(lw_out.iterables) # Len(lw_expr.indices))
        => lw_out.status # "ok"

\* The number of comprehensions at the head of a list of statements.
RECURSIVE LeadingComprehensions(_)
LeadingComprehensions(stmts) ==
    IF stmts # <<>> /\ Head(stmts).k = "FunctionalFor"
    THEN 1 + LeadingComprehensions(Tail(stmts))
    ELSE 0

\* v is the node or one of its descendants; a comprehension assigned to v
\* stands for v and is not searched.
RECURSIVE Occurs(_, _)
Occurs(node, v) ==
    \/ node = v
    \/ CASE node.k \in {"PyccelMul", "PythonMax"} ->
                \E i \in DOMAIN node.args : Occurs(node.args[i], v)
         [] node.k = "Assign" -> Occurs(node.lhs, v) \/ Occurs(node.rhs, v)
         [] node.k = "For" -> Occurs(node.body, v)
         [] node.k = "CodeBlock" -> \E i \in DOMAIN node.body : Occurs(node.body[i], v)
         [] node.k = "FunctionalFor" -> node.lhs # v /\ Occurs(node.loops, v)
         [] OTHER -> FALSE

\* The original statement of C6: a block with more than one statement is
\* accepted only when every statement but the one the descent goes on with
\* is a nested comprehension whose temporary is used by that statement.
C6_ExtrasAreNestedComprehensions ==
    \A i \in DOMAIN lw_out.blocks :
        LET b    == lw_out.blocks[i]
            lead == LeadingComprehensions(b.stmts)
        IN (b.accepted /\ Len(b.stmts) > 1)
              => \A m \in DOMAIN b.stmts :
                    m # lead + 1 => /\ b.stmts[m].k = "FunctionalFor"
                                    /\ Occurs(b.stmts[lead + 1], b.stmts[m].lhs)

\* C6: in every block the lowering goes through, the comprehensions at the
\* head of the block are removed and each is put in the place of its lhs in
\* all the statements that remain; the descent goes on, with the first
\* statement that remains, exactly when there is one and every other
\* statement that remains is an assignment to the accumulator searched for;
\* a block that is not accepted ends the lowering with a failure.
C6_BlockAcceptance ==
    \A i \in DOMAIN lw_out.blocks :
        LET b    == lw_out.blocks[i]
            lead == LeadingComprehensions(b.stmts)
        IN /\ Len(b.rest) = Len(b.stmts) - lead
           /\ \A m \in DOMAIN b.rest :
                 /\ b.rest[m].k = b.stmts[lead + m].k
                 /\ \A j \in 1..lead : ~Occurs(b.rest[m], b.stmts[j].lhs)
           /\ b.accepted <=>
                 /\ b.rest # <<>>
                 /\ \A m \in 2..Len(b.rest) :
                       b.rest[m].k = "Assign" /\ b.rest[m].lhs = b.dummy
           /\ ~b.accepted => (i = Len(lw_out.blocks) /\ lw_out.status \notin {"none", "ok"})
           /\ (~b.accepted /\ b.rest # <<>>) => lw_out.status = "NotImplementedError"

\* The lowering returned after going through a block that begins with a
\* comprehension, whose temporary the next statement uses, and that ends
\* with a further assignment to the accumulator.
C6_Witness ==
    /\ lw_out.status = "ok"
    /\ \E i \in DOMAIN lw_out.blocks :
          LET b    == lw_out.blocks[i]
              lead == LeadingComprehensions(b.stmts)
          IN /\ b.accepted
             /\ lead >= 1
             /\ Len(b.rest) >= 2
             /\ Occurs(b.stmts[lead + 1], b.stmts[1].lhs)
             /\ b.rest[1] # b.stmts[lead + 1]

\* C28: in the text of a reduction (sum, max, min) the element expression
\* does not hold the accumulator: the lhs of the terminal assignment is
\* taken out of the arguments of a max or min call, one remaining argument
\* standing bare and several as the same call; the text is the expression
\* '<name>(...)' exactly when a FunctionalFor uses the node, and the
\* statement '<lhs> = <name>(...)' with its line terminator otherwise.
C28_ReductionPrinted ==
    (lw_out.status = "ok" /\ lw_expr.cls # "FunctionalFor")
    => LET lhs  == lw_out.body.lhs
           rhs  == lw_out.body.rhs
           rest == SelectSeq(rhs.args, LAMBDA a : a # lhs)
       IN  /\ ~Occurs(lw_out.element, lhs)
           /\ (rhs.k \in {"PythonMax", "PythonMin"} /\ Len(rest) < Len(rhs.args))
              => (/\ Len(rest) = 1 => lw_out.element = rest[1]
                  /\ Len(rest) > 1 => (lw_out.element.k = rhs.k /\ lw_out.element.args = rest))
           /\ lw_out.name = ComprehensionName(lw_expr.cls)
           /\ lw_out.form = (IF "FunctionalFor" \in lw_expr.users THEN "expression"
                             ELSE "statement")

\* A max over a call max(Dummy_0, x, y) has been printed as a statement whose
\* element is max(x, y).
C28_Witness ==
    /\ lw_out.status = "ok"
    /\ lw_expr.cls = "FunctionalMax"
    /\ lw_out.body.rhs = PythonMax(<<Dummy, Variable("x"), Variable("y")>>)
    /\ lw_out.element = PythonMax(<<Variable("x"), Variable("y")>>)
    /\ lw_out.form = "statement"

\* C24: the lowering of a comprehension has two outcomes only: it returns
\* a terminal Assign with the iterables, or it raises NotImplementedError;
\* also for an empty block and for a block of nested comprehensions only.
C24_TwoOutcomes ==
    /\ lw_out.status \in {"none", "ok", "NotImplementedError"}
    /\ lw_out.status = "ok" => lw_out.body.k = "Assign"

(***************************************************************************)
(* Part 4. The traversal of a compilation unit: scopes, diagnostics and    *)
(* the text returned.                                                      *)
(*                                                                         *)
(* A text is a sequence of tokens; the line terminator is the token "\n"   *)
(* and one level of indentation is the token "    ".                       *)
(***************************************************************************)

\* The diagnostics collector holds the diagnostics reported, in order.
NoDiagnostics == <<>>

Diagnostic(severity, symbol) == [severity |-> severity, symbol |-> symbol]

\* errors.report(message, symbol = ..., severity = ...): the diagnostic is
\* recorded; a fatal one raises and so ends the processing of the unit.
Report(collector, severity, symbol) ==
    [collector |-> Append(collector, Diagnostic(severity, symbol)),
     raised    |-> severity = "fatal"]

\* The collector's fatal count.
FatalCount(collector) ==
    Cardinality({i \in DOMAIN collector : collector[i].severity = "fatal"})

PythonTuple(items) == [k |-> "tuple", items |-> items]

IndexedElement(base, indices) == [k |-> "IndexedElement", base |-> base, indices |-> indices]

\* The text of an expression.
RECURSIVE PrintExpr(_)
PrintExpr(expr) ==
    CASE expr.k \in {"Variable", "HomogeneousTupleVariable"} -> <<expr.name>>
      [] expr.k = "PyccelMul" -> PrintExpr(expr.args[1]) \o <<"*">> \o PrintExpr(expr.args[2])
      [] expr.k = "PythonRange" -> <<"range", "(", expr.stop, ")">>
      [] expr.k = "PythonMax" ->
            <<"max", "(">> \o PrintExpr(expr.args[1]) \o <<",">> \o PrintExpr(expr.args[2]) \o <<")">>
      [] OTHER -> <<expr.k>>

\* sep.join(self._print(i) for i in items)
RECURSIVE JoinPrinted(_, _)
JoinPrinted(items, sep) ==
    IF items = <<>> THEN <<>>
    ELSE IF Len(items) = 1 THEN PrintExpr(items[1])
    ELSE PrintExpr(items[1]) \o <<sep>> \o JoinPrinted(Tail(items), sep)

\* What a _print_ call did: how it ended ("ok" when it returned, the name
\* of the exception when it raised), the collector and the import table it
\* leaves, and the text it returned.
PrintResult(status, collector, imports, code) ==
    [status |-> status, collector |-> collector, imports |-> imports, code |-> code]

\* A plausible slip: the diagnostic is reported with severity 'error'.
PrintIndexedElementError(collector, imports, expr) ==
    LET indices == expr.indices
        base    == PrintExpr(expr.base)
    IN IF indices.k = "tuple"
       THEN PrintResult("ok", collector, imports, base \o <<"[">> \o JoinPrinted(indices.items, ",") \o <<"]">>)
       ELSE PrintResult("ok", Report(collector, "error", expr).collector, imports,
                        base \o <<"[">> \o PrintExpr(indices) \o <<"]">>)

\* _print_IndexedElement
PrintIndexedElement(collector, imports, expr) ==
    LET indices == expr.indices
        base    == PrintExpr(expr.base)
    IN IF indices.k = "tuple"
       THEN LET inner == IF Len(indices.items) = 1 /\ indices.items[1].k = "tuple"
                         THEN indices.items[1].items
                         ELSE indices.items
                sep   == IF expr.base.k = "HomogeneousTupleVariable" THEN "][" ELSE ","
            IN PrintResult("ok", collector, imports,
                           base \o <<"[">> \o JoinPrinted(inner, sep) \o <<"]">>)
       ELSE LET r == Report(collector, "fatal", expr)
            IN IF r.raised
               THEN PrintResult("PyccelError", r.collector, imports, <<>>)
               ELSE PrintResult("ok", r.collector, imports,
                                base \o <<"[">> \o PrintExpr(indices) \o <<"]">>)

\* ' '.join(f'for {idx} in {iters}' for idx, iters in zip(...))
RECURSIVE ForClauses(_)
ForClauses(for_loops) ==
    IF for_loops = <<>> THEN <<>>
    ELSE <<"for">> \o PrintExpr(Head(for_loops)[1]) \o <<"in">> \o PrintExpr(Head(for_loops)[2])
         \o ForClauses(Tail(for_loops))

\* f'{lhs} = {name}([{body} {for_loops}])\n'
FunctionalForText(expr, out) ==
    PrintExpr(expr.lhs) \o <<"=", out.name.base, "(", "[">> \o PrintExpr(out.element)
    \o ForClauses(out.for_loops) \o <<"]", ")", "\n">>

\* self._print(node): the printer of the class of the node is called.
PrintNode(imports, al, collector, node) ==
    CASE node.k = "IndexedElement" -> PrintIndexedElement(collector, imports, node)
      [] node.k = "FunctionalFor" ->
            LET r == PrintFunctionalFor(imports, al, node)
            IN PrintResult(r.out.status, collector, r.imports,
                           IF r.out.status = "ok" THEN FunctionalForText(node, r.out) ELSE <<>>)
      [] node.k = "Pass" -> PrintResult("ok", collector, imports, <<"pass", "\n">>)
      [] OTHER -> PrintResult("ok", collector, imports, PrintExpr(node))

\* lines.strip('\n')
RECURSIVE StripLeft(_)
StripLeft(lines) ==
    IF lines # <<>> /\ Head(lines) = "\n" THEN StripLeft(Tail(lines)) ELSE lines

RECURSIVE StripRight(_)
StripRight(lines) ==
    IF lines # <<>> /\ lines[Len(lines)] = "\n"
    THEN StripRight(SubSeq(lines, 1, Len(lines) - 1))
    ELSE lines

\* lines.replace('\n', '\n' + tab)
RECURSIVE ReplaceNewlines(_, _)
ReplaceNewlines(lines, tab) ==
    IF lines = <<>> THEN <<>>
    ELSE IF Head(lines) = "\n" THEN <<"\n", tab>> \o ReplaceNewlines(Tail(lines), tab)
    ELSE <<Head(lines)>> \o ReplaceNewlines(Tail(lines), tab)

\* A plausible slip: the terminators at the ends of the body are kept.
IndentCodestringNoStrip(lines) ==
    LET tab == "    "
    IN IF lines = <<>> THEN lines
       ELSE <<tab>> \o ReplaceNewlines(lines, tab) \o <<"\n">>

\* _indent_codestring(lines)
IndentCodestring(lines) ==
    LET tab == "    "
    IN IF lines = <<>> THEN lines
       ELSE <<tab>> \o ReplaceNewlines(StripRight(StripLeft(lines)), tab) \o <<"\n">>

\* ''.join(self._print(i) for i in self.get_additional_imports())
RECURSIVE PrintImports(_)
PrintImports(import_objs) ==
    IF import_objs = <<>> THEN <<>>
    ELSE LET target == CHOOSE t \in Head(import_objs).target : TRUE
         IN <<"from", Head(import_objs).source, "import", target.name.base, "as",
              target.target.base, "\n">> \o PrintImports(Tail(import_objs))

\* Largest nesting of constructs and largest number of nodes of a unit.
MaxDepth == 3
MaxUnitNodes == 4

\* A _print_ call in progress for a construct with a scope: the class of
\* the node, its scope, the scope that was current when a Program began,
\* the text of its first line, the text of what it has printed so far, the
\* text of the synthesized imports a Module has collected, and whether a
\* Module has printed its program. The frame also remembers the scope that
\* was current when the call was made.
Frame(k, scope, mod_scope, head) ==
    [k |-> k, scope |-> scope, mod_scope |-> mod_scope, head |-> head, code |-> <<>>,
     imports |-> <<>>, sealed |-> FALSE, before |-> t_scope]

Constructs == {"Module", "Program", "FunctionDef", "For", "While"}

\* The nodes a construct holds; the root is the node handed to the printer.
MayHold(outer, inner) ==
    CASE outer = "root" -> inner \in Constructs
      [] outer = "Module" -> inner \in {"FunctionDef", "Program", "statement"}
      [] outer = "FunctionDef" -> inner \in {"FunctionDef", "For", "While", "statement"}
      [] OTHER -> inner \in {"For", "While", "statement"}

Top == t_stack[Len(t_stack)]

Outer == IF t_stack = <<>> THEN "root" ELSE Top.k

\* The scope of the construct that encloses the next node.
EnclosingScope == IF t_stack = <<>> THEN 0 ELSE Top.scope

CanPrint(kind) ==
    /\ t_status = "printing"
    /\ t_printed < MaxUnitNodes
    /\ MayHold(Outer, kind)
    /\ t_stack # <<>> => ~Top.sealed
    /\ kind \in Constructs => Len(t_stack) < MaxDepth

\* The statements and the conditions of the units.
GoodIndexedElement ==
    IndexedElement(Variable("a"), PythonTuple(<<Variable("i"), Variable("j")>>))
BadIndexedElement == IndexedElement(Variable("a"), Variable("i"))
GoodFunctionalFor ==
    FunctionalFor("FunctionalFor", For(PythonRange("n"), Assign(Dummy, ElementX)),
                  Variable("out"), <<Variable("i")>>, Dummy, {})
BadFunctionalFor ==
    FunctionalFor("FunctionalFor", For(PythonRange("n"), Pass),
                  Variable("out"), <<Variable("i")>>, Dummy, {})

Statements == {Pass, GoodIndexedElement, BadIndexedElement, GoodFunctionalFor, BadFunctionalFor}
Conditions == {Variable("c"), BadIndexedElement}

\* An exception leaves the _print_ calls in progress: none of them returns.
Raised(r) ==
    /\ t_status' = r.status
    /\ t_stack' = <<>>
    /\ t_collector' = r.collector
    /\ additional_imports' = r.imports
    /\ UNCHANGED <<t_scope, t_parent, t_set, t_exit, t_text>>

\* self.set_scope(expr.scope), expr.scope being a new scope with the given
\* parent, and the printing of what the construct holds begins.
Enter(kind, parent_scope, mod_scope, head, stack) ==
    LET scope == Len(t_parent) + 1
    IN /\ t_parent' = Append(t_parent, parent_scope)
       /\ t_scope' = scope
       /\ t_set' = t_set + 1
       /\ t_stack' = Append(stack, Frame(kind, scope, mod_scope, head))
       /\ UNCHANGED <<t_exit, t_status, t_collector, t_text, additional_imports>>

Begun(node) ==
    /\ t_printed' = t_printed + 1
    /\ t_last' = node
    /\ UNCHANGED notTraversal

BeginModule ==
    /\ CanPrint("Module")
    /\ Enter("Module", EnclosingScope, 0, <<>>, t_stack)
    /\ Begun([k |-> "Module"])

\* mod_scope = self.scope; self.set_scope(expr.scope). A Module has
\* collected its synthesized imports when it prints its program.
BeginProgram ==
    /\ CanPrint("Program")
    /\ \E parent_scope \in {0, EnclosingScope} :
          Enter("Program", parent_scope, t_scope, <<"if __name__ == '__main__':", "\n">>,
                IF t_stack = <<>> THEN t_stack
                ELSE [t_stack EXCEPT ![Len(t_stack)] =
                        [@ EXCEPT !.sealed = TRUE,
                                  !.imports = PrintImports(GetAdditionalImports(additional_imports))]])
    /\ Begun([k |-> "Program"])

BeginFunctionDef ==
    /\ CanPrint("FunctionDef")
    /\ Enter("FunctionDef", EnclosingScope, 0, <<"def", "f", "(", ")", ":", "\n">>, t_stack)
    /\ Begun([k |-> "FunctionDef"])

BeginFor ==
    /\ CanPrint("For")
    /\ Enter("For", EnclosingScope, 0,
             <<"for", "i", "in">> \o PrintExpr(PythonRange("n")) \o <<":", "\n">>, t_stack)
    /\ Begun([k |-> "For"])

\* cond = self._print(expr.test) comes before self.set_scope(expr.scope).
BeginWhile ==
    /\ CanPrint("While")
    /\ \E test \in Conditions :
          \E r \in {PrintNode(additional_imports, aliases, t_collector, test)} :
             IF r.status = "ok"
             THEN /\ Enter("While", EnclosingScope, 0, <<"while">> \o r.code \o <<":", "\n">>,
                           t_stack)
                  /\ Begun([k |-> "While"])
             ELSE Raised(r) /\ Begun(test)

\* A statement of the construct in progress is printed.
PrintStatement ==
    /\ CanPrint("statement")
    /\ \E node \in Statements :
          \E r \in {PrintNode(additional_imports, aliases, t_collector, node)} :
             /\ Begun(node)
             /\ IF r.status = "ok"
                THEN /\ t_stack' = [t_stack EXCEPT ![Len(t_stack)].code = @ \o r.code]
                     /\ t_collector' = r.collector
                     /\ additional_imports' = r.imports
                     /\ UNCHANGED <<t_scope, t_parent, t_set, t_exit, t_status, t_text>>
                ELSE Raised(r)

\* A plausible slip: leaving a scope goes back to no scope at all.
ParentScopeNone(scope) == 0

\* scope.parent_scope
ParentScope(scope) == IF scope = 0 THEN 0 ELSE t_parent[scope]

\* The _print_ call on top of the stack returns code: to the call that
\* made it, or to the caller of the printer.
Return(code) ==
    /\ t_stack' = IF Len(t_stack) = 1 THEN <<>>
                  ELSE [SubSeq(t_stack, 1, Len(t_stack) - 1)
                            EXCEPT ![Len(t_stack) - 1].code = @ \o code]
    /\ t_text' = IF Len(t_stack) = 1 THEN code ELSE t_text
    /\ t_status' = IF Len(t_stack) = 1 THEN "done" ELSE t_status
    /\ UNCHANGED <<t_parent, t_collector, t_printed, t_last, additional_imports>>
    /\ UNCHANGED notTraversal

Ending(kind) ==
    /\ t_status = "printing"
    /\ t_stack # <<>>
    /\ Top.k = kind

\* self.exit_scope()
ExitScope ==
    /\ t_scope' = ParentScope(t_scope)
    /\ t_exit' = t_exit + 1
    /\ UNCHANGED t_set

EndModule ==
    /\ Ending("Module")
    /\ ExitScope
    /\ Return((IF Top.sealed THEN Top.imports
               ELSE PrintImports(GetAdditionalImports(additional_imports)))
              \o <<"\n">> \o Top.code)

\* self.exit_scope(); if mod_scope: self.set_scope(mod_scope)
EndProgram ==
    /\ Ending("Program")
    /\ t_exit' = t_exit + 1
    /\ IF Top.mod_scope # 0
       THEN t_scope' = Top.mod_scope /\ t_set' = t_set + 1
       ELSE t_scope' = ParentScope(t_scope) /\ UNCHANGED t_set
    /\ Return(Top.head
              \o IndentCodestring(PrintImports(GetAdditionalImports(additional_imports))
                                  \o Top.code)
              \o <<"\n">>)

EndFunctionDef ==
    /\ Ending("FunctionDef")
    /\ ExitScope
    /\ Return(Top.head \o IndentCodestring(Top.code) \o <<"\n">>)

EndFor ==
    /\ Ending("For")
    /\ ExitScope
    /\ Return(Top.head \o IndentCodestring(Top.code))

EndWhile ==
    /\ Ending("While")
    /\ ExitScope
    /\ Return(Top.head \o IndentCodestring(Top.code))

TraversalInit ==
    /\ t_stack = <<>>
    /\ t_scope = 0
    /\ t_parent = <<>>
    /\ t_set = 0
    /\ t_exit = 0
    /\ t_status = "printing"
    /\ t_collector = NoDiagnostics
    /\ t_printed = 0
    /\ t_last = NoNode
    /\ t_text = <<>>

TraversalIdle ==
    /\ t_stack = <<>>
    /\ t_scope = 0
    /\ t_parent = <<>>
    /\ t_set = 0
    /\ t_exit = 0
    /\ t_status = "idle"
    /\ t_collector = NoDiagnostics
    /\ t_printed = 0
    /\ t_last = NoNode
    /\ t_text = <<>>

\* C3: when the printing of a unit has ended, by returning or by an
\* exception, as many exit_scope calls as set_scope calls have been made.
C3_ScopeBalance ==
    t_status \notin {"printing", "idle"} => t_set = t_exit

\* An IndexedElement whose indices are not a tuple or a list.
BadIndices(node) == node.k = "IndexedElement" /\ node.indices.k # "tuple"

C10_FatalInv ==
    /\ BadIndices(t_last) => FatalCount(t_collector) >= 1
    /\ FatalCount(t_collector) >= 1 =>
          /\ t_status = "PyccelError"
          /\ t_stack = <<>>
          /\ t_text = <<>>

\* C10: the printing of an IndexedElement whose indices are not a tuple or
\* a list reports a fatal diagnostic; once the collector holds a fatal
\* diagnostic the printing of the unit has ended without text, and no
\* further node is printed.
C10_FatalHaltsOutput ==
    /\ []C10_FatalInv
    /\ [][FatalCount(t_collector) >= 1 => (t_printed' = t_printed /\ t_text' = t_text)]_vars

\* A fatal diagnostic has ended the printing of a unit inside two nested
\* constructs, with statements printed before it.
C10_Witness ==
    /\ t_status = "PyccelError"
    /\ BadIndices(t_last)
    /\ FatalCount(t_collector) = 1
    /\ t_set >= 2
    /\ t_printed >= 4
    /\ t_text = <<>>

\* C11: when the printing of a unit has been ended by a failure, whatever
\* the failure (a fatal report, a lowering failure of a comprehension), the
\* collector holds a fatal diagnostic.
C11_FailuresAreReported ==
    t_status \notin {"idle", "printing", "done"} => FatalCount(t_collector) >= 1

\* C22: when the printing of a For, While, FunctionDef, Module or Program
\* returns, the current scope is the scope that was current when the
\* printing of that node was called, whatever the nesting.
C22_ScopeRestored ==
    [][(/\ t_status = "printing"
        /\ t_stack # <<>>
        /\ Len(t_stack') = Len(t_stack) - 1
        /\ t_status' \in {"printing", "done"})
       => t_scope' = Top.before]_vars

\* A Program has been printed inside a Module, in a scope of its own that
\* is not a child of the module's scope, and the module's scope is current
\* again; a FunctionDef of the module has been printed before.
C22_Witness ==
    /\ t_status = "printing"
    /\ Len(t_stack) = 1
    /\ Top.k = "Module"
    /\ Top.sealed
    /\ \E i \in 1..Len(Top.code) : Top.code[i] = "if __name__ == '__main__':"
    /\ \E i \in 1..Len(Top.code) : Top.code[i] = "def"
    /\ t_scope = Top.scope
    /\ \E s \in 1..Len(t_parent) : s # Top.scope /\ t_parent[s] = 0

\* Number of places of a text where the given line stands.
Occurrences(text, line) ==
    Cardinality({i \in 1..(Len(text) - Len(line) + 1) :
                    SubSeq(text, i, i + Len(line) - 1) = line})

\* C23: in the text returned for a Module, every synthesized import
\* registered while the module was printed, its program included, stands
\* exactly once.
C23_SynthesizedImportsOnce ==
    [][(/\ t_status = "printing"
        /\ Len(t_stack) = 1
        /\ Top.k = "Module"
        /\ t_status' = "done")
       => \A i \in 1..Len(GetAdditionalImports(additional_imports')) :
             Occurrences(t_text',
                         PrintImports(<<GetAdditionalImports(additional_imports')[i]>>)) = 1]_vars

(***************************************************************************)
(* Part 5. The directives: parse and the printers of the directive nodes.  *)
(*                                                                         *)
(* The text handed to parse is a sequence of directive lines; a line is    *)
(* the sequence of tokens that follows the sentinel '#$ omp', the blank    *)
(* between two words being the token " ".                                  *)
(***************************************************************************)

\* The constructs of the active version of the standard, the keywords each
\* can be combined with, and the clauses that are legal.
ActiveVersion == o_version
OmpConstructs == {"parallel", "for", "simd"}
OmpCombined(name) ==
    CASE name = "parallel" -> {"for"}
      [] name = "for" -> {"simd"}
      [] OTHER -> {}
OmpClauses(version) ==
    IF version = "4.5" THEN {"private(i)"} ELSE {"private(i)", "allocate(x)"}

\* The tokens of a line after its first n tokens.
Drop(line, n) == SubSeq(line, n + 1, Len(line))

\* A sequence of clauses, each after a blank.
RECURSIVE IsClauseText(_, _)
IsClauseText(txt, version) ==
    \/ txt = <<>>
    \/ /\ Len(txt) >= 2
       /\ txt[1] = " "
       /\ txt[2] \in OmpClauses(version)
       /\ IsClauseText(Drop(txt, 2), version)

HasCombined(line) ==
    /\ Len(line) >= 3
    /\ line[2] = " "
    /\ line[3] \in OmpCombined(line[1])

\* The line is a statement of the grammar of the version.
IsStatement(line, version) ==
    \/ line = <<"end", " ", "parallel">>
    \/ /\ line # <<>>
       /\ line[1] \in OmpConstructs
       /\ IsClauseText(IF HasCombined(line) THEN Drop(line, 3) ELSE Drop(line, 1), version)

OmpAnnotatedComment(name, combined, txt) ==
    [k |-> "OmpAnnotatedComment", name |-> name, combined |-> combined, txt |-> txt]

OmpEndClause(txt) == [k |-> "Omp_End_Clause", txt |-> txt]

\* parser._visit(statement): the node of a statement. The name is the
\* construct, combined the keyword it is combined with ("" stands for
\* None), txt the text of the clauses.
VisitStatement(line) ==
    IF line[1] = "end" THEN OmpEndClause(line)
    ELSE IF HasCombined(line)
    THEN OmpAnnotatedComment(line[1], line[3], Drop(line, 3))
    ELSE OmpAnnotatedComment(line[1], "", Drop(line, 1))

\* The module has been loaded: omp = openmp_versions["4.5"] and
\* set_current_version(4.5); no parse call has been made.
OpenmpLoaded ==
    /\ o_version = "4.5"
    /\ o_parses = 0

\* Largest number of parse calls of one unit.
MaxParses == 3

\* A plausible slip: the grammar takes the clauses of every version.
ModelFromStrAnyVersion(stmt, version) ==
    IF \A i \in DOMAIN stmt : IsStatement(stmt[i], "5.0")
    THEN [raised |-> FALSE, statements |-> stmt]
    ELSE [raised |-> TRUE, statements |-> <<>>]

\* meta.model_from_str(stmt): the statements of the text, or a TextXError
\* when a line is not a statement of the grammar.
ModelFromStr(stmt, version) ==
    IF \A i \in DOMAIN stmt : IsStatement(stmt[i], version)
    THEN [raised |-> FALSE, statements |-> stmt]
    ELSE [raised |-> TRUE, statements |-> <<>>]

\* What parse did: how it ended ("returned", or the exception raised), the
\* node returned and the collector.
Parsed(status, node, errors) == [status |-> status, node |-> node, errors |-> errors]

\* parse(stmt, parser, errors). On a TextXError the diagnostic is reported
\* and no node is returned. An assert that fails raises AssertionError when
\* asserts are executed; when they are not, the first statement is taken,
\* and taking it from no statement raises IndexError.
Parse(stmt, asserts, errors) ==
    LET meta_model == ModelFromStr(stmt, ActiveVersion)
        reported   == Report(errors, "fatal", stmt)
    IN IF meta_model.raised
       THEN Parsed(IF reported.raised THEN "PyccelError" ELSE "returned", NoNode,
                   reported.collector)
       ELSE IF asserts /\ Len(meta_model.statements) # 1
       THEN Parsed("AssertionError", NoNode, errors)
       ELSE IF meta_model.statements = <<>>
       THEN Parsed("IndexError", NoNode, errors)
       ELSE Parsed("returned", VisitStatement(meta_model.statements[1]), errors)

\* A plausible slip: the keyword of a combined construct is put after the
\* name without a blank.
PrintOmpAnnotatedCommentNoBlank(expr) ==
    <<"#$omp", " ", expr.name>>
    \o (IF expr.combined # "" THEN <<expr.combined>> ELSE <<>>)
    \o expr.txt \o <<"\n">>

\* _print_OmpAnnotatedComment
PrintOmpAnnotatedComment(expr) ==
    LET clauses  == IF expr.combined # "" THEN <<" ", expr.combined>> ELSE <<>>
        omp_expr == <<"#$omp", " ", expr.name>>
    IN omp_expr \o (clauses \o expr.txt) \o <<"\n">>

\* _print_Omp_End_Clause
PrintOmpEndClause(expr) == <<"#$omp", " ">> \o expr.txt \o <<"\n">>

\* Largest number of directive lines in a text and of clauses in a line.
MaxStatements == 2
MaxClauses == 1

\* The texts of the clauses of a line: up to MaxClauses clauses, legal in
\* some version of the standard.
RECURSIVE ClauseTexts(_)
ClauseTexts(n) ==
    IF n = 0 THEN {<<>>}
    ELSE ClauseTexts(n - 1)
         \cup {txt \o <<" ", c>> : txt \in ClauseTexts(n - 1), c \in OmpClauses("5.0")}

DirectiveLines ==
    {<<name>> \o txt : name \in OmpConstructs \cup {"paralel"}, txt \in ClauseTexts(MaxClauses)}
    \cup {<<name, " ", kw>> \o txt :
            name \in {"parallel"}, kw \in {"for", "simd"}, txt \in ClauseTexts(MaxClauses)}
    \cup {<<"end", " ", "parallel">>}

DirectiveTexts == UNION {[1..n -> DirectiveLines] : n \in 0..MaxStatements}

DirectivesInit ==
    /\ o_stmt \in DirectiveTexts
    /\ o_asserts \in BOOLEAN
    /\ o_status = "ready"
    /\ o_node = NoNode
    /\ o_errors = <<>>
    /\ o_code = <<>>

DirectivesIdle ==
    /\ o_stmt = <<>>
    /\ o_asserts = TRUE
    /\ o_status = "idle"
    /\ o_node = NoNode
    /\ o_errors = <<>>
    /\ o_code = <<>>

DoParse ==
    /\ o_status = "ready"
    /\ \E r \in {Parse(o_stmt, o_asserts, o_errors)} :
          /\ o_status' = r.status
          /\ o_node' = r.node
          /\ o_errors' = r.errors
    /\ UNCHANGED <<o_stmt, o_asserts, o_code>>
    /\ UNCHANGED notDirectives

DoPrintOmpAnnotatedComment ==
    /\ o_status = "returned"
    /\ o_node.k = "OmpAnnotatedComment"
    /\ o_code' = PrintOmpAnnotatedComment(o_node)
    /\ o_status' = "printed"
    /\ UNCHANGED <<o_stmt, o_asserts, o_node, o_errors>>
    /\ UNCHANGED notDirectives

DoPrintOmpEndClause ==
    /\ o_status = "returned"
    /\ o_node.k = "Omp_End_Clause"
    /\ o_code' = PrintOmpEndClause(o_node)
    /\ o_status' = "printed"
    /\ UNCHANGED <<o_stmt, o_asserts, o_node, o_errors>>
    /\ UNCHANGED notDirectives

OneStatement(stmt) == Len(stmt) = 1 /\ IsStatement(stmt[1], ActiveVersion)

\* C8: when the text is not exactly one statement of the grammar, parse
\* leaves exactly one diagnostic in the collector, fatal and with the text
\* as its symbol, and returns no node.
C8_RejectedIsReported ==
    (o_status \notin {"idle", "ready"} /\ ~OneStatement(o_stmt))
        => /\ o_node = NoNode
           /\ Len(o_errors) = 1
           /\ o_errors[1] = Diagnostic("fatal", o_stmt)

\* The next directive of the unit is handed to parse: one line, after the
\* parse calls that returned.
ParseDirective ==
    /\ o_status \in {"ready", "returned"}
    /\ o_parses < MaxParses
    /\ \E line \in DirectiveLines :
          \E r \in {Parse(<<line>>, o_asserts, o_errors)} :
             /\ o_stmt' = <<line>>
             /\ o_status' = r.status
             /\ o_node' = r.node
             /\ o_errors' = r.errors
    /\ o_parses' = o_parses + 1
    /\ UNCHANGED <<o_asserts, o_code, o_version, notParsing>>

\* The clauses of a line that the version does not have.
IllegalClauses(line, version) == Range(line) \cap (OmpClauses("5.0") \ OmpClauses(version))

Stages == {"syntactic", "semantic"}

\* A value that has a dtype attribute.
TypedValue(name, dtype) == [k |-> "Variable", name |-> name, dtype |-> dtype]

\* A value that has no dtype attribute.
PyccelSymbol(name) == [k |-> "PyccelSymbol", name |-> name]

IntegerBounds == {TypedValue("i", "NativeInteger"), TypedValue("j", "NativeInteger")}

OtherBounds == {TypedValue("x", "NativeFloat"), PyccelSymbol("s")}

SliceBounds == {NoNode} \cup IntegerBounds \cup OtherBounds

\* hasattr(b, 'dtype') and isinstance(b.dtype, NativeInteger)
HasIntegerDtype(b) == "dtype" \in DOMAIN b /\ b.dtype = "NativeInteger"

Slice(start, stop, step) == [k |-> "Slice", start |-> start, stop |-> stop, step |-> step]

Constructed(node) == [status |-> "constructed", node |-> node]

TypeError == [status |-> "TypeError", node |-> NoNode]

\* Slice.__init__ without the test of the step.
SliceInitNoStepCheck(stage, start, stop, step) ==
    IF stage = "syntactic" THEN Constructed(Slice(start, stop, step))
    ELSE IF start # NoNode /\ ~HasIntegerDtype(start) THEN TypeError
    ELSE IF stop # NoNode /\ ~HasIntegerDtype(stop) THEN TypeError
    ELSE Constructed(Slice(start, stop, step))

\* Slice.__init__: the attributes are set, and outside the syntactic stage
\* each bound that is not None must have an integer dtype.
SliceInit(stage, start, stop, step) ==
    IF stage = "syntactic" THEN Constructed(Slice(start, stop, step))
    ELSE IF start # NoNode /\ ~HasIntegerDtype(start) THEN TypeError
    ELSE IF stop # NoNode /\ ~HasIntegerDtype(stop) THEN TypeError
    ELSE IF step # NoNode /\ ~HasIntegerDtype(step) THEN TypeError
    ELSE Constructed(Slice(start, stop, step))

\* str(b) of a bound: its name.
StrBound(b) == <<b.name>>

\* Slice.__str__: '{0} : {1}'.format(start, stop), an absent bound being ''.
SliceStr(slice) ==
    LET start == IF slice.start = NoNode THEN <<>> ELSE StrBound(slice.start)
        stop  == IF slice.stop = NoNode THEN <<>> ELSE StrBound(slice.stop)
    IN  start \o <<" ", ":", " ">> \o stop

SliceInitState ==
    /\ s_stage \in Stages
    /\ s_args = <<>>
    /\ s_status = "ready"
    /\ s_slice = NoNode
    /\ s_str = <<>>

SliceIdle ==
    /\ s_stage = "syntactic"
    /\ s_args = <<>>
    /\ s_status = "idle"
    /\ s_slice = NoNode
    /\ s_str = <<>>

\* Slice(start, stop, step) is called.
ConstructSlice ==
    /\ s_status # "idle"
    /\ \E start \in SliceBounds, stop \in SliceBounds, step \in SliceBounds :
         LET r == SliceInit(s_stage, start, stop, step)
         IN  /\ s_args' = <<start, stop, step>>
             /\ s_status' = r.status
             /\ s_slice' = r.node
             /\ s_str' = <<>>
    /\ UNCHANGED <<s_stage, notSlice>>

\* str(slice) is called on the slice constructed last.
StrSlice ==
    /\ s_status = "constructed"
    /\ s_str = <<>>
    /\ s_str' = SliceStr(s_slice)
    /\ UNCHANGED <<s_stage, s_args, s_status, s_slice, notSlice>>

\* The bounds given to the constructor that are not None.
PresentBounds == {i \in DOMAIN s_args : s_args[i] # NoNode}

\* C12: the construction of a slice fails exactly when the stage is
\* semantic and some bound that is present is not a typed value of integer
\* kind; so it succeeds for every bounds in the syntactic stage, and for
\* every combination of absent and integer bounds in the semantic stage.
C12_SliceConstruction ==
    s_status \in {"constructed", "TypeError"} =>
        /\ s_status = "TypeError" <=>
              (s_stage = "semantic" /\ \E i \in PresentBounds : s_args[i] \in OtherBounds)
        /\ s_status = "constructed" => s_slice = Slice(s_args[1], s_args[2], s_args[3])

\* A slice whose only bad bound is its step is refused in the semantic stage.
C12_Witness ==
    /\ s_status = "TypeError"
    /\ s_stage = "semantic"
    /\ s_args[1] = NoNode
    /\ s_args[2] \in IntegerBounds
    /\ s_args[3] \in OtherBounds

\* The names in a text, in order.
RECURSIVE NamesOf(_)
NamesOf(text) ==
    IF text = <<>> THEN <<>>
    ELSE (IF Head(text) \in {" ", ":"} THEN <<>> ELSE <<Head(text)>>) \o NamesOf(Tail(text))

\* The names of the bounds of a slice that are present, in order.
BoundNames(slice) ==
    (IF slice.start = NoNode THEN <<>> ELSE <<slice.start.name>>)
    \o (IF slice.stop = NoNode THEN <<>> ELSE <<slice.stop.name>>)
    \o (IF slice.step = NoNode THEN <<>> ELSE <<slice.step.name>>)

\* C20: the string form of a slice shows every bound that is present, in
\* the order start, stop, step.
C20_StrShowsEveryBound ==
    s_str # <<>> => NamesOf(s_str) = BoundNames(s_slice)

(***************************************************************************)
(* Part 7. The text of a definition: _print_FunctionDef with its           *)
(* decorators, _print_Interface, _print_ClassDef, _print_Module and        *)
(* _print_Program.                                                         *)
(*                                                                         *)
(* A list is a record with the field items, so that it is told apart from  *)
(* the other values a decorator map holds. A decorator map is the sequence *)
(* of its entries (name, value) in the order of the dictionary.            *)
(***************************************************************************)

List(items) == [k |-> "list", items |-> items]

\* A tuple of strings given as the value of a decorator.
StrTuple(items) == [k |-> "tuple", items |-> items]

FunctionCall(args) == [k |-> "FunctionCall", args |-> args]

\* The value of the entry 'template' of a decorator map.
Template(decorator_list) ==
    [k |-> "dict", template_dict |-> "T", decorator_list |-> List(decorator_list)]

Entry(n, f) == [n |-> n, f |-> f]

FunctionDef(name, imports, interfaces, functions, body, doc_string, decorators, headers) ==
    [k |-> "FunctionDef", name |-> name, imports |-> imports, interfaces |-> interfaces,
     functions |-> functions, body |-> body, doc_string |-> doc_string,
     decorators |-> decorators, headers |-> headers]

Interface(name, functions, is_argument) ==
    [k |-> "Interface", name |-> name, functions |-> functions, is_argument |-> is_argument]

ClassDef(name) == [k |-> "ClassDef", name |-> name, methods |-> <<>>, interfaces |-> <<>>]

Program(imports, body) == [k |-> "Program", imports |-> imports, body |-> body]

Module(name, imports, interfaces, funcs, classes, init_func, free_func, program) ==
    [k |-> "Module", name |-> name, imports |-> imports, interfaces |-> interfaces,
     funcs |-> funcs, classes |-> classes, init_func |-> init_func, free_func |-> free_func,
     program |-> program]

\* pyccel.decorators.__all__
PyccelDecorators == {"kernel", "device", "types", "template"}

\* _print_Import of an Import without target: f'import {source}\n'
RECURSIVE PrintSourceImports(_)
PrintSourceImports(imports) ==
    IF imports = <<>> THEN <<>>
    ELSE <<"import", Head(imports), "\n">> \o PrintSourceImports(Tail(imports))

\* ''.join(self._print(l) for l in statements), the statements being Pass
\* or an Assign of a variable to a variable.
RECURSIVE PrintStatements(_)
PrintStatements(statements) ==
    IF statements = <<>> THEN <<>>
    ELSE (IF Head(statements).k = "Pass" THEN <<"pass", "\n">>
          ELSE <<Head(statements).lhs.name, "=", Head(statements).rhs.name, "\n">>)
         \o PrintStatements(Tail(statements))

\* _print_CodeBlock
PrintCodeBlock(expr) ==
    IF Len(expr.body) = 0 THEN <<"pass", "\n">> ELSE PrintStatements(expr.body)

\* any(f in i.functions for i in expr.interfaces)
InInterface(f, interfaces) == \E i \in DOMAIN interfaces : f \in Range(interfaces[i].functions)

\* ', '.join(self._print(i) for i in args), args holding the text of each
\* argument.
RECURSIVE JoinArgs(_)
JoinArgs(args) ==
    IF args = <<>> THEN <<>>
    ELSE IF Len(args) = 1 THEN args[1]
    ELSE args[1] \o <<", ">> \o JoinArgs(Tail(args))

\* _print_FunctionDef up to the text of the definition (decorators and
\* headers come after), and _print_Interface, which prints the first
\* function of the interface under the name of the interface. The
\* definitions nested in a definition carry no decorator and no header.
RECURSIVE FunctionDefCode(_)
FunctionDefCode(expr) ==
    LET RECURSIVE PrintAll(_)
        PrintAll(defs) ==
            IF defs = <<>> THEN <<>>
            ELSE (IF Head(defs).k = "Interface"
                  THEN FunctionDefCode([Head(defs).functions[1] EXCEPT !.name = Head(defs).name])
                  ELSE FunctionDefCode(Head(defs)))
                 \o PrintAll(Tail(defs))
        imports    == IndentCodestring(PrintSourceImports(expr.imports))
        interfaces == IndentCodestring(
                          PrintAll(SelectSeq(expr.interfaces, LAMBDA i : ~i.is_argument)))
        functions  == IndentCodestring(
                          PrintAll(SelectSeq(expr.functions,
                                             LAMBDA f : ~InInterface(f, expr.interfaces))))
        body       == IndentCodestring(PrintCodeBlock(expr.body))
        doc_string == IndentCodestring(IF expr.doc_string # <<>>
                                       THEN <<"\"\"\"">> \o expr.doc_string \o <<"\"\"\"", "\n">>
                                       ELSE <<>>)
    IN  <<"def", expr.name, "(", ")", ":", "\n">>
        \o doc_string \o functions \o interfaces \o imports \o body
        \o <<"\n">>

\* The lines of one decorator of the marker n.
DecoratorLine(n, func) ==
    LET args == IF func.k = "FunctionCall" THEN [i \in DOMAIN func.args |-> <<func.args[i]>>]
                ELSE IF func.k = "PyccelSymbol" /\ func.name = n THEN <<>>
                ELSE [i \in DOMAIN func.items |-> <<"'", func.items[i], "'">>]
    IN  IF n = "types" /\ Len(args) = 0 THEN <<>>
        ELSE IF args # <<>> THEN <<"@", n, "(">> \o JoinArgs(args) \o <<")", "\n">>
        ELSE <<"@", n, "\n">>

\* dec: the lines of the decorators of the marker n, f being its value.
RECURSIVE DecoratorLines(_, _)
DecoratorLines(n, funcs) ==
    IF funcs = <<>> THEN <<>>
    ELSE DecoratorLine(n, Head(funcs)) \o DecoratorLines(n, Tail(funcs))

\* if not isinstance(f, list): f = [f]
AsList(f) == IF f.k = "list" THEN f.items ELSE <<f>>

\* A plausible slip: code = code-with-dec-after-the-lines-already-there.
RECURSIVE DecorateInOrder(_, _, _)
DecorateInOrder(decorators, lines, code) ==
    IF decorators = <<>> THEN lines \o code
    ELSE DecorateInOrder(Tail(decorators),
                         lines \o DecoratorLines(Head(decorators).n, AsList(Head(decorators).f)),
                         code)

\* for n, f in decorators.items(): ... code = dec + code. lines is the text
\* put before code so far.
RECURSIVE Decorate(_, _, _)
Decorate(decorators, lines, code) ==
    IF decorators = <<>> THEN lines \o code
    ELSE Decorate(Tail(decorators),
                  DecoratorLines(Head(decorators).n, AsList(Head(decorators).f)) \o lines,
                  code)

\* The imports the markers of a decorator map register.
RECURSIVE DecoratorImports(_, _)
DecoratorImports(imports, decorators) ==
    IF decorators = <<>> THEN imports
    ELSE DecoratorImports(
             IF Head(decorators).n \in PyccelDecorators
             THEN InsertNewImport(imports, "pyccel.decorators",
                                  AsName(Name(Head(decorators).n), Name(Head(decorators).n)),
                                  NoName)
             ELSE imports,
             Tail(decorators))

\* decorators[key], 0 when the map has no such key.
KeyIndex(decorators, key) ==
    IF \E i \in DOMAIN decorators : decorators[i].n = key
    THEN CHOOSE i \in DOMAIN decorators : decorators[i].n = key
    ELSE 0

\* Whether a value is true in a condition: None, the empty list and the
\* empty dictionary are not.
Truthy(f) ==
    CASE f.k = "None" -> FALSE
      [] f.k = "list" -> f.items # <<>>
      [] OTHER -> TRUE

\* decorators.pop(key)
Pop(decorators, key) == SelectSeq(decorators, LAMBDA d : d.n # key)

DefinitionResult(status, expr, imports, ignore, code) ==
    [status |-> status, expr |-> expr, imports |-> imports, ignore |-> ignore, code |-> code]

\* _print_FunctionDef: the node is returned with the decorator map as the
\* printing leaves it.
PrintFunctionDef(imports, ignore, expr) ==
    LET code == FunctionDefCode(expr)
        t    == KeyIndex(expr.decorators, "template")
        headed(c) == IF expr.headers # <<>> THEN expr.headers \o <<"\n">> \o c ELSE c
    IN  IF expr.decorators = <<>>
        THEN DefinitionResult("ok", expr, imports, ignore, headed(code))
        ELSE IF t = 0
        THEN DefinitionResult("KeyError", expr, imports, ignore, <<>>)
        ELSE IF Truthy(expr.decorators[t].f) /\ expr.decorators[t].f.k # "dict"
        THEN DefinitionResult("TypeError", expr, imports, ignore, <<>>)
        ELSE LET decorators ==
                     IF Truthy(expr.decorators[t].f)
                     THEN [expr.decorators EXCEPT ![t].f = @.decorator_list]
                     ELSE Pop(expr.decorators, "template")
             IN  DefinitionResult("ok", [expr EXCEPT !.decorators = decorators],
                                  DecoratorImports(imports, decorators), ignore,
                                  headed(Decorate(decorators, <<>>, code)))

\* _print_ClassDef of a class without superclass
PrintClassDef(expr) ==
    <<"class", expr.name, "(", ")", ":">> \o <<"\n">> \o IndentCodestring(<<>>) \o <<"\n">>
    \o IndentCodestring(<<>>) \o <<"\n">>

\* _print_Program
PrintProgram(imports, expr) ==
    <<"if __name__ == '__main__':", "\n">>
    \o IndentCodestring(PrintSourceImports(expr.imports)
                        \o PrintImports(GetAdditionalImports(imports))
                        \o PrintCodeBlock(expr.body))
    \o <<"\n">>

\* _print_Module. The body of the initialisation function is an IfSection
\* whose last statement sets the flag of the module; it is left out.
PrintModule(imports, ignore, expr) ==
    LET RECURSIVE PrintFuncs(_)
        PrintFuncs(defs) ==
            IF defs = <<>> THEN <<>>
            ELSE (CASE Head(defs).k = "Interface" ->
                          FunctionDefCode([Head(defs).functions[1]
                                              EXCEPT !.name = Head(defs).name])
                    [] Head(defs).k = "ClassDef" -> PrintClassDef(Head(defs))
                    [] OTHER -> FunctionDefCode(Head(defs)))
                 \o PrintFuncs(Tail(defs))
        imports_txt == PrintSourceImports(expr.imports)
        interfaces  == PrintFuncs(expr.interfaces)
        funcs       == PrintFuncs(SelectSeq(expr.funcs,
                           LAMBDA f : ~(InInterface(f, expr.interfaces)
                                        \/ f = expr.init_func \/ f = expr.free_func)))
        classes     == PrintFuncs(expr.classes)
        ignore1     == IF expr.init_func # NoNode THEN Append(ignore, expr.init_func.name)
                       ELSE ignore
        init_body   == IF expr.init_func # NoNode
                       THEN PrintStatements(SubSeq(expr.init_func.body.body, 1,
                                                   Len(expr.init_func.body.body) - 1))
                       ELSE <<>>
        ignore2     == IF expr.free_func # NoNode THEN Append(ignore1, expr.free_func.name)
                       ELSE ignore1
        all_imports == imports_txt \o PrintImports(GetAdditionalImports(imports))
        body        == interfaces \o funcs \o classes \o init_body
        program     == IF expr.program # NoNode
                       THEN [expr.program EXCEPT
                               !.imports = SelectSeq(@, LAMBDA s : s # expr.name)]
                       ELSE NoNode
        prog        == IF expr.program # NoNode THEN PrintProgram(imports, program) ELSE <<>>
    IN  DefinitionResult("ok", [expr EXCEPT !.program = program], imports, ignore2,
                         all_imports \o <<"\n">> \o body \o prog)

\* Largest number of entries of a decorator map besides 'template', and
\* largest number of times one node is printed.
MaxMarkers == 2
MaxReprints == 2

\* The values a decorator map holds for each marker.
DecoratorEntries ==
    {Entry("kernel", PyccelSymbol("kernel")), Entry("kernel", List(<<PyccelSymbol("kernel")>>)),
     Entry("device", List(<<PyccelSymbol("device")>>)),
     Entry("types", List(<<FunctionCall(<<>>)>>)),
     Entry("types", List(<<FunctionCall(<<"int", "float">>)>>)),
     Entry("types", List(<<StrTuple(<<"int">>)>>)),
     Entry("template", NoNode),
     Entry("template", Template(<<>>)),
     Entry("template", Template(<<FunctionCall(<<"T", "int">>)>>)),
     Entry("template", Template(<<FunctionCall(<<"T", "int">>), FunctionCall(<<"S", "float">>)>>))}

\* The decorator maps of the definitions: the empty map of a definition
\* built without decorators, and the maps of the parser, which always hold
\* the key 'template'.
DecoratorMaps ==
    {<<>>} \cup
    {m \in UNION {[1..n -> DecoratorEntries] : n \in 1..(MaxMarkers + 1)} :
        /\ \A i, j \in DOMAIN m : m[i].n = m[j].n => i = j
        /\ \E i \in DOMAIN m : m[i].n = "template"}

\* A definition without anything nested.
Leaf(name) == FunctionDef(name, <<>>, <<>>, <<>>, CodeBlock(<<>>), <<>>, <<>>, <<>>)

\* The functions and interfaces nested in a definition.
Nests ==
    {[functions |-> <<>>, interfaces |-> <<>>],
     [functions |-> <<Leaf("g")>>, interfaces |-> <<>>],
     [functions |-> <<Leaf("g"), Leaf("h")>>,
      interfaces |-> <<Interface("itf", <<Leaf("h")>>, FALSE)>>],
     [functions |-> <<Leaf("h")>>, interfaces |-> <<Interface("itf", <<Leaf("h")>>, TRUE)>>]}

MainBody == CodeBlock(<<Assign(Variable("x"), Variable("y"))>>)

FunctionDefs ==
    {FunctionDef("f", imports, nest.interfaces, nest.functions, MainBody, doc_string,
                 decorators, headers) :
        imports \in {<<>>, <<"m">>}, nest \in Nests, doc_string \in {<<>>, <<"doc">>},
        decorators \in DecoratorMaps, headers \in {<<>>, <<"#$ header">>}}

InitFunc ==
    FunctionDef("mod__init", <<>>, <<>>, <<>>,
                CodeBlock(<<Assign(Variable("x"), Variable("y")),
                            Assign(Variable("initialised"), Variable("True"))>>),
                <<>>, <<>>, <<>>)

FreeFunc == Leaf("mod__free")

Modules ==
    {Module("mod", imports, nest.interfaces,
            nest.functions \o (IF init_func = NoNode THEN <<>> ELSE <<init_func>>)
                           \o (IF free_func = NoNode THEN <<>> ELSE <<free_func>>),
            classes, init_func, free_func, program) :
        imports \in {<<>>, <<"m">>}, nest \in Nests, classes \in {<<>>, <<ClassDef("C")>>},
        init_func \in {NoNode, InitFunc}, free_func \in {NoNode, FreeFunc},
        program \in {NoNode, Program(<<"mod">>, CodeBlock(<<>>))}}

DefinitionsInit ==
    /\ d_given \in FunctionDefs \cup Modules
    /\ d_expr = d_given
    /\ d_code = <<>>
    /\ d_status = "ready"
    /\ d_prints = 0
    /\ d_ignore = <<>>

DefinitionsIdle ==
    /\ d_given = NoNode
    /\ d_expr = NoNode
    /\ d_code = <<>>
    /\ d_status = "idle"
    /\ d_prints = 0
    /\ d_ignore = <<>>

\* The printer has printed the node and returned r, or raised.
DefinitionPrinted(r) ==
    /\ d_prints' = d_prints + 1
    /\ d_status' = IF r.status = "ok" THEN "printed" ELSE r.status
    /\ d_expr' = r.expr
    /\ d_code' = r.code
    /\ d_ignore' = r.ignore
    /\ additional_imports' = r.imports
    /\ UNCHANGED <<d_given, notDefinitions>>

DoPrintFunctionDef ==
    /\ d_status \in {"ready", "printed"}
    /\ d_prints < MaxReprints
    /\ d_expr.k = "FunctionDef"
    /\ \E r \in {PrintFunctionDef(additional_imports, d_ignore, d_expr)} : DefinitionPrinted(r)

DoPrintModule ==
    /\ d_status \in {"ready", "printed"}
    /\ d_prints < MaxReprints
    /\ d_expr.k = "Module"
    /\ \E r \in {PrintModule(additional_imports, d_ignore, d_expr)} : DefinitionPrinted(r)

\* The places of a token in a text.
Places(text, token) == {i \in DOMAIN text : text[i] = token}

Before(earlier, later) == \A i \in earlier, j \in later : i < j

\* The place of the 'def' line of the definition printed.
OwnDef == CHOOSE i \in Places(d_code, "def") : \A j \in Places(d_code, "def") : i <= j

\* C13: in the text of a function definition the nested imports come before
\* the nested function and interface definitions, and these before the main
\* body; in the text of a module the imports come before the interface,
\* function and class definitions, and these before the initialisation body
\* and the program.
C13_DeclarationOrder ==
    d_status = "printed" =>
        IF d_expr.k = "FunctionDef"
        THEN LET imports == Places(d_code, "import")
                 nested  == Places(d_code, "def") \ {OwnDef}
                 body    == Places(d_code, "=")
             IN  Before(imports, nested) /\ Before(imports \cup nested, body)
        ELSE LET imports == Places(d_code, "import")
                 defs    == Places(d_code, "def") \cup Places(d_code, "class")
                 rest    == Places(d_code, "=") \cup Places(d_code, "if __name__ == '__main__':")
             IN  Before(imports, defs) /\ Before(imports \cup defs, rest)

\* The order of a module alone.
ModuleOrder == d_expr.k = "Module" => C13_DeclarationOrder

\* A marker of a decorator map that the definition carries: an entry other
\* than 'template', or a 'template' entry with decorators.
Carries(entry) ==
    entry.n = "template" => (entry.f.k = "dict" /\ entry.f.decorator_list.items # <<>>)

\* A 'types' marker with an empty list of arguments.
EmptyTypes(entry) ==
    /\ entry.n = "types"
    /\ \A i \in DOMAIN entry.f.items :
          entry.f.items[i].k = "FunctionCall" /\ entry.f.items[i].args = <<>>

RECURSIVE NamesOfEntries(_)
NamesOfEntries(entries) ==
    IF entries = <<>> THEN <<>> ELSE <<Head(entries).n>> \o NamesOfEntries(Tail(entries))

Reverse(s) == [i \in DOMAIN s |-> s[Len(s) + 1 - i]]

\* The markers of the '@' lines of a text, in order, the lines of one
\* marker that follow one another being taken once.
RECURSIVE MarkerLines(_, _)
MarkerLines(text, last) ==
    IF Len(text) < 2 THEN <<>>
    ELSE IF Head(text) = "@"
    THEN (IF text[2] = last THEN <<>> ELSE <<text[2]>>) \o MarkerLines(Tail(text), text[2])
    ELSE MarkerLines(Tail(text), last)

\* C14: the markers of a function definition, processed in the order of
\* the map, each yield an '@name' line before the 'def' line, in the
\* reverse order; only a 'types' marker with an empty list of arguments
\* yields no line.
C14_MarkersMostRecentFirst ==
    (d_status = "printed" /\ d_prints = 1 /\ d_given.k = "FunctionDef") =>
        /\ Before(Places(d_code, "@"), {OwnDef})
        /\ MarkerLines(d_code, "") =
              Reverse(NamesOfEntries(SelectSeq(d_given.decorators,
                                               LAMBDA e : Carries(e) /\ ~EmptyTypes(e))))

\* A definition with two markers that yield a line and a 'types' marker
\* without arguments has been printed.
C14_Witness ==
    /\ d_status = "printed"
    /\ d_prints = 1
    /\ d_given.k = "FunctionDef"
    /\ Len(MarkerLines(d_code, "")) = 2
    /\ \E i \in DOMAIN d_given.decorators : EmptyTypes(d_given.decorators[i])

\* C25: printing a FunctionDef leaves its decorator map as it was built,
\* the 'template' entry included, and every printing of it succeeds, the
\* second one too.
C25_DecoratorsUnchanged ==
    (d_given.k = "FunctionDef" /\ d_prints >= 1)
    => (/\ d_expr.decorators = d_given.decorators
        /\ d_status = "printed")

(***************************************************************************)
(* Part 8. The indentation of a rendered body (_indent_codestring).        *)
(***************************************************************************)

\* Largest number of tokens of a body and largest number of indentations.
MaxLen == 4
MaxIndent == 2

\* The rendered bodies: texts of words and line terminators.
Bodies == UNION {[1..n -> {"a", "b", "\n"}] : n \in 0..MaxLen}

IndentInit ==
    /\ i_lines \in Bodies
    /\ i_out = i_lines
    /\ i_k = 0

IndentIdle ==
    /\ i_lines = <<>>
    /\ i_out = <<>>
    /\ i_k = -1

\* self._indent_codestring(body), on the text of the last application.
ApplyIndent ==
    /\ i_k >= 0
    /\ i_k < MaxIndent
    /\ i_out' = IndentCodestring(i_out)
    /\ i_k' = i_k + 1
    /\ UNCHANGED <<i_lines, notIndent>>

\* The lines of a text: the pieces between its line terminators.
RECURSIVE SplitLines(_, _)
SplitLines(text, line) ==
    IF text = <<>> THEN <<line>>
    ELSE IF Head(text) = "\n" THEN <<line>> \o SplitLines(Tail(text), <<>>)
    ELSE SplitLines(Tail(text), Append(line, Head(text)))

\* The lines of a body that ends with a line terminator.
TerminatedLines(text) ==
    LET pieces == SplitLines(text, <<>>) IN SubSeq(pieces, 1, Len(pieces) - 1)

\* The lines of a body without the blank lines at its start and at its end;
\* one blank line when nothing else is left.
KeptLines(text) ==
    LET pieces == SplitLines(text, <<>>)
        full   == {i \in DOMAIN pieces : pieces[i] # <<>>}
    IN  IF full = {} THEN <<<<>>>>
        ELSE SubSeq(pieces, CHOOSE i \in full : \A j \in full : i <= j,
                            CHOOSE i \in full : \A j \in full : i >= j)

\* k indentation levels.
Tabs(k) == [i \in 1..k |-> "    "]

\* The lines, each after k levels of indentation and with its terminator.
RECURSIVE IndentedLines(_, _)
IndentedLines(lines, k) ==
    IF lines = <<>> THEN <<>>
    ELSE Tabs(k) \o Head(lines) \o <<"\n">> \o IndentedLines(Tail(lines), k)

\* C16 (as stated): a body that ends with a line terminator comes back with
\* all its lines, blank ones included, each behind one level of indentation
\* for each application.
C16_IndentsEveryLine ==
    (i_k >= 1 /\ i_lines # <<>> /\ i_lines[Len(i_lines)] = "\n")
        => i_out = IndentedLines(TerminatedLines(i_lines), i_k)

\* C16 (amended): the empty text comes back empty; a body that is not empty
\* comes back without the blank lines at its start and at its end, its
\* other lines in order, blank ones included, each behind one level of
\* indentation for each application, the text ending with one terminator.
C16_IndentsKeptLines ==
    i_k >= 1 =>
        IF i_lines = <<>> THEN i_out = <<>>
        ELSE i_out = IndentedLines(KeptLines(i_lines), i_k)

\* A body of two lines has been indented twice.
C16_Witness ==
    /\ i_k = 2
    /\ i_lines = <<"a", "\n", "b", "\n">>
    /\ i_out = <<"    ", "    ", "a", "\n", "    ", "    ", "b", "\n">>

(***************************************************************************)
(* Part 9. Compilation units processed one after another: the collector    *)
(* of the process and the tables of the printers.                          *)
(*                                                                         *)
(* A unit is processed as test_preprocess does it: the unit is processed,  *)
(* then the collector is reset; a fatal diagnostic raises, and the reset   *)
(* that follows the processing is not reached.                             *)
(***************************************************************************)

\* Largest number of units and largest number of operations in one unit.
MaxUnits == 2
MaxUnitOps == 2

\* A plausible slip: the tables are attributes of the class, so a new
\* printer starts with the tables of the one before.
NewPrinterSharingTables(printers, filename) ==
    Append(printers,
           IF printers = <<>>
           THEN [filename |-> filename, additional_imports |-> <<>>, aliases |-> <<>>,
                 ignore_funcs |-> <<>>]
           ELSE [printers[Len(printers)] EXCEPT !.filename = filename])

\* PythonCodePrinter.__init__: self._additional_imports = {},
\* self._aliases = {}, self._ignore_funcs = []
NewPrinter(printers, filename) ==
    Append(printers,
           [filename |-> filename, additional_imports |-> <<>>, aliases |-> <<>>,
            ignore_funcs |-> <<>>])

\* A plausible slip: reset forgets the warnings and keeps the rest.
ResetWarningsOnly(collector) == SelectSeq(collector, LAMBDA d : d.severity # "warning")

\* Errors.reset(): the collector holds no diagnostic.
Reset(collector) == NoDiagnostics

UnitsInit ==
    /\ u_errors = NoDiagnostics
    /\ u_target = ""
    /\ u_printers = <<>>
    /\ u_phase = "between"
    /\ u_reset = FALSE
    /\ u_ops = 0
    /\ u_actor = 0

UnitsIdle ==
    /\ u_errors = NoDiagnostics
    /\ u_target = ""
    /\ u_printers = <<>>
    /\ u_phase = "idle"
    /\ u_reset = FALSE
    /\ u_ops = 0
    /\ u_actor = 0

\* The name of the file of a unit.
FileOf(unit) == <<"unit", unit>>

\* The processing of the next unit begins: its printer is created, and
\* errors.set_target(filename, 'file') is called.
BeginUnit ==
    /\ u_phase = "between"
    /\ Len(u_printers) < MaxUnits
    /\ u_printers' = NewPrinter(u_printers, FileOf(Len(u_printers) + 1))
    /\ u_target' = FileOf(Len(u_printers) + 1)
    /\ u_phase' = "running"
    /\ u_ops' = 0
    /\ u_actor' = Len(u_printers) + 1
    /\ UNCHANGED <<u_errors, u_reset, notUnits>>

\* An operation of a printer is under way in the unit being processed.
Operating ==
    /\ u_phase = "running"
    /\ u_ops < MaxUnitOps
    /\ u_ops' = u_ops + 1

\* errors.report(..., severity = ...) while the unit is processed; a fatal
\* diagnostic raises, which ends the processing before the reset.
UnitReport ==
    /\ Operating
    /\ \E severity \in {"warning", "error", "fatal"} :
          \E r \in {Report(u_errors, severity, u_target)} :
             /\ u_errors' = r.collector
             /\ u_phase' = IF r.raised THEN "between" ELSE u_phase
             /\ u_reset' = IF r.raised THEN FALSE ELSE u_reset
    /\ u_actor' = Len(u_printers)
    /\ UNCHANGED <<u_target, u_printers, notUnits>>

\* insert_new_import of a printer
UnitInsertNewImport ==
    /\ Operating
    /\ \E u \in DOMAIN u_printers :
          /\ u_printers' = [u_printers EXCEPT ![u].additional_imports =
                               InsertNewImport(@, "numpy",
                                               AsName(Name("NumpyArray"), Name("array")),
                                               NoName)]
          /\ u_actor' = u
    /\ UNCHANGED <<u_errors, u_target, u_phase, u_reset, notUnits>>

\* _print_Import of a printer, for 'from numpy import array as a'
UnitPrintImport ==
    /\ Operating
    /\ \E u \in DOMAIN u_printers :
          /\ u_printers' = [u_printers EXCEPT ![u].aliases =
                               PrintImport(@, "numpy",
                                           <<AsName(Name("array"), Name("a"))>>).aliases]
          /\ u_actor' = u
    /\ UNCHANGED <<u_errors, u_target, u_phase, u_reset, notUnits>>

\* _print_Module of a printer, for a module with an initialisation function
UnitPrintModule ==
    /\ Operating
    /\ \E u \in DOMAIN u_printers :
          /\ u_printers' = [u_printers EXCEPT ![u].ignore_funcs =
                               PrintModule(u_printers[u].additional_imports, @,
                                           Module("mod", <<>>, <<>>, <<InitFunc>>, <<>>,
                                                  InitFunc, NoNode, NoNode)).ignore]
          /\ u_actor' = u
    /\ UNCHANGED <<u_errors, u_target, u_phase, u_reset, notUnits>>

\* The processing of the unit has returned.
EndUnit ==
    /\ u_phase = "running"
    /\ u_phase' = "ended"
    /\ u_reset' = FALSE
    /\ UNCHANGED <<u_errors, u_target, u_printers, u_ops, u_actor, notUnits>>

\* errors = Errors(); errors.reset()
ResetCollector ==
    /\ u_phase = "ended"
    /\ u_errors' = Reset(u_errors)
    /\ u_phase' = "between"
    /\ u_reset' = TRUE
    /\ UNCHANGED <<u_target, u_printers, u_ops, u_actor, notUnits>>

\* C17: when the collector has been reset after the unit before, the
\* collector holds no diagnostic, and so no fatal one, at the start of a unit.
C17_ResetClearsCollector ==
    (u_phase = "running" /\ u_ops = 0 /\ u_reset /\ Len(u_printers) >= 2)
        => (u_errors = NoDiagnostics /\ FatalCount(u_errors) = 0)

\* The second unit starts after a first unit that reported a warning and
\* was followed by the reset.
C17_Witness ==
    /\ u_phase = "running"
    /\ u_ops = 0
    /\ u_reset
    /\ Len(u_printers) = 2
    /\ u_errors = NoDiagnostics

\* The tables of a printer.
Tables(printer) == <<printer.additional_imports, printer.aliases, printer.ignore_funcs>>

\* C18: a new printer starts with an empty import table, alias table and
\* list of ignored functions, and an operation of one printer leaves the
\* tables of every other printer as they are.
C18_TablesPerUnit ==
    [][/\ Len(u_printers') > Len(u_printers)
            => Tables(u_printers'[Len(u_printers')]) = <<<<>>, <<>>, <<>>>>
       /\ \A v \in DOMAIN u_printers :
             v # u_actor' => Tables(u_printers'[v]) = Tables(u_printers[v])]_vars

\* Two printers, each with entries the other does not have.
C18_Witness ==
    /\ Len(u_printers) = 2
    /\ u_printers[1].additional_imports # <<>>
    /\ u_printers[2].additional_imports = <<>>
    /\ u_printers[2].aliases # <<>>
    /\ u_printers[1].aliases = <<>>

(***************************************************************************)
(* Part 10. The file lock of mac_tests/test_filelock.py: the parametrized  *)
(* runs of test_locking, each in a process of its own, on one lock file.   *)
(***************************************************************************)

\* Number of runs of test_locking that are under way at the same time
\* (parametrize gives 10).
MaxRuns == 4

Runs == 1..MaxRuns

\* The lock file '.lock_acquisition.lock' held by no process.
Free == 0

\* A plausible slip: an attempt that takes the lock whoever holds it.
TryAcquireBlind(lock, p) == p

\* One attempt of FileLock.acquire (the with statement enters through it): the
\* lock is taken when no process holds it, and the attempt changes nothing
\* otherwise; acquire repeats the attempt until it succeeds (no timeout is given).
TryAcquire(lock, p) == IF lock = Free THEN p ELSE lock

\* FileLock.release (the with statement leaves through it): the holder gives the
\* lock back.
Release(lock, p) == IF lock = p THEN Free ELSE lock

LockInit ==
    /\ k_pc = [p \in Runs |-> "collected"]
    /\ k_lock = Free

LockIdle ==
    /\ k_pc = <<>>
    /\ k_lock = Free

\* Lines 9-10: the run prints its number, reads the clock and reaches the with
\* statement.
BeginRun(p) ==
    /\ k_pc[p] = "collected"
    /\ k_pc' = [k_pc EXCEPT ![p] = "waiting"]
    /\ UNCHANGED <<k_lock, notLock>>

\* Line 11: the attempt of acquire that succeeds; the process is in the block.
EnterWith(p) ==
    /\ k_pc[p] = "waiting"
    /\ \E l \in {TryAcquire(k_lock, p)} :
          /\ l = p
          /\ k_lock' = l
    /\ k_pc' = [k_pc EXCEPT ![p] = "inside"]
    /\ UNCHANGED notLock

\* Lines 12-14 and the end of the with statement: the waited time is printed, the
\* process sleeps, and the block is left with release.
LeaveWith(p) ==
    /\ k_pc[p] = "inside"
    /\ k_lock' = Release(k_lock, p)
    /\ k_pc' = [k_pc EXCEPT ![p] = "done"]
    /\ UNCHANGED notLock

BeginTest == \E p \in Runs : BeginRun(p)

EnterBlock == \E p \in Runs : EnterWith(p)

LeaveBlock == \E p \in Runs : LeaveWith(p)

Inside == {p \in Runs : k_pc[p] = "inside"}

MaxModuleTargets == 2
MaxCallSteps == 3

\* An Import of a module of the project: the module is expr.source_module,
\* each target t has the object it names (t.object; t.name is its name).
ModuleImport(source_module, target) ==
    [k |-> "Import", source |-> source_module.name, source_module |-> source_module,
     target |-> target]

\* A call of the function funcdef without arguments.
CallOf(funcdef) == [k |-> "FunctionCall", funcdef |-> funcdef, args |-> <<>>]

\* expr.funcdef.results: the initialisation and the free function return nothing.
Results(funcdef) == IF funcdef.name = "g" THEN <<Variable("r")>> ELSE <<>>

\* _print_Import of an Import with a source_module; target is
\* list(set(target)) of the targets that are no Module, in the order the set
\* gives. No swap table and no registry has the source.
PrintModuleImport(ignore, expr, target) ==
    LET mod == expr.source_module
        init_func_name == IF mod.init_func # NoNode THEN mod.init_func.name ELSE ""
        free_func_name == IF mod.free_func # NoNode THEN mod.free_func.name ELSE ""
        ignore1 == IF mod.init_func # NoNode THEN Append(ignore, init_func_name) ELSE ignore
        ignore2 == IF mod.free_func # NoNode THEN Append(ignore1, free_func_name) ELSE ignore1
        printed == SelectSeq(target, LAMBDA t : t.name \notin {init_func_name, free_func_name})
    IN  IF target = <<>>
        THEN [ignore |-> ignore, code |-> <<"import", expr.source, "\n">>]
        ELSE [ignore |-> ignore2,
              code   |-> <<"from", expr.source, "import">>
                         \o JoinArgs([i \in DOMAIN printed |-> <<printed[i].name>>]) \o <<"\n">>]

\* _print_FunctionCall of a call that is no DottedFunctionCall and goes
\* through no interface.
PrintFunctionCall(ignore, expr) ==
    IF expr.funcdef.name \in Range(ignore) THEN <<>>
    ELSE LET code == <<expr.funcdef.name, "(">>
                     \o JoinArgs([i \in DOMAIN expr.args |-> PrintExpr(expr.args[i])])
                     \o <<")">>
         IN  IF Results(expr.funcdef) # <<>> THEN code ELSE code \o <<"\n">>

\* The modules of the project that are imported or printed.
SourceModules ==
    {Module("mod", <<>>, <<>>,
            <<Leaf("g")>> \o (IF init_func = NoNode THEN <<>> ELSE <<init_func>>)
                          \o (IF free_func = NoNode THEN <<>> ELSE <<free_func>>),
            <<>>, init_func, free_func, NoNode) :
        init_func \in {NoNode, InitFunc}, free_func \in {NoNode, FreeFunc}}

\* The objects an Import of the module can name: the module, its functions.
TargetsOf(mod) ==
    {[object |-> mod, name |-> mod.name]}
    \cup {[object |-> mod.funcs[i], name |-> mod.funcs[i].name] : i \in DOMAIN mod.funcs}

Called == {Leaf("g"), InitFunc, FreeFunc}

\* The initialisation and free functions of a module.
SpecialFuncs(mod) ==
    (IF mod.init_func # NoNode THEN {mod.init_func.name} ELSE {})
    \cup (IF mod.free_func # NoNode THEN {mod.free_func.name} ELSE {})

CallsInit ==
    /\ c_ignore = <<>>
    /\ c_last = NoNode
    /\ c_code = <<>>
    /\ c_after = {}
    /\ c_steps = 0

CallsIdle ==
    /\ c_ignore = <<>>
    /\ c_last = NoNode
    /\ c_code = <<>>
    /\ c_after = {}
    /\ c_steps = -1

NodePrinted(node, ignore, code) ==
    /\ c_steps >= 0
    /\ c_steps < MaxCallSteps
    /\ c_steps' = c_steps + 1
    /\ c_last' = node
    /\ c_ignore' = ignore
    /\ c_code' = code
    /\ UNCHANGED notCalls

DoPrintModuleImport ==
    \E mod \in SourceModules :
      \E targets \in {T \in SUBSET TargetsOf(mod) : Cardinality(T) <= MaxModuleTargets} :
        \E target \in Orderings({t \in targets : t.object.k # "Module"}) :
          \E r \in {PrintModuleImport(c_ignore, ModuleImport(mod, targets), target)} :
             /\ NodePrinted(ModuleImport(mod, targets), r.ignore, r.code)
             /\ c_after' = c_after \cup SpecialFuncs(mod)

DoPrintSourceModule ==
    \E mod \in SourceModules :
      \E r \in {PrintModule(additional_imports, c_ignore, mod)} :
         /\ NodePrinted(mod, r.ignore, r.code)
         /\ c_after' = c_after \cup SpecialFuncs(mod)

DoPrintFunctionCall ==
    \E funcdef \in Called :
       /\ NodePrinted(CallOf(funcdef), c_ignore, PrintFunctionCall(c_ignore, CallOf(funcdef)))
       /\ UNCHANGED c_after

\* C27: once an Import of a module with an initialisation or a free function
\* has been printed, in the form 'import <source>' or 'from <source>
\* import ...', or such a Module has been printed, every call of these
\* functions prints as the empty text; and the functions are not among the
\* import targets printed nor among the function definitions printed.
C27_SpecialFuncsStayHidden ==
    /\ (c_last.k = "FunctionCall" /\ c_last.funcdef.name \in c_after) => c_code = <<>>
    /\ c_last.k \in {"Import", "Module"}
       => \A i \in DOMAIN c_code : c_code[i] \notin SpecialFuncs(IF c_last.k = "Import"
                                                                 THEN c_last.source_module
                                                                 ELSE c_last)

(***************************************************************************)
(* Part 12. The aliases of library symbols and the scopes of the Imports   *)
(* that bind them: Imports at module level and Imports nested in a         *)
(* function definition (_print_FunctionDef prints expr.imports), with the  *)
(* references printed in the functions and at module level.                *)
(***************************************************************************)

\* The function definitions of the module, none nested in another.
ScopedFunctions == {"f", "g"}

ScopesInit ==
    /\ a_scope = "module"
    /\ a_bound = {}

ScopesIdle ==
    /\ a_scope = "idle"
    /\ a_bound = {}

\* _print_Import of an Import of numpy that stands in the given scope.
ScopedImport(scope) ==
    \E given \in TargetLists \ {<<>>} :
      \E target \in Orderings(Range(given)) :
        \E r \in {PrintImport(aliases, "numpy", target)} :
           /\ p_steps < MaxPrints
           /\ p_steps' = p_steps + 1
           /\ aliases' = r.aliases
           /\ imported' = imported \cup {<<Registry("numpy", t.name), t.target>> : t \in Range(given)}
           /\ a_bound' = a_bound
                         \cup {<<scope, Registry("numpy", t.name), t.target>> : t \in Range(given)}
           /\ p_out' = [node |-> "Import", precision |-> 0, typename |-> NoName, code |-> r.code,
                        target |-> given]
           /\ UNCHANGED <<additional_imports, registered, repeated, default_precision>>

\* An Import of the module is printed (_print_Module prints expr.imports).
PrintModuleLevelImport ==
    /\ a_scope = "module"
    /\ ScopedImport("module")
    /\ UNCHANGED <<a_scope, notAliasScopes>>

\* _print_FunctionDef up to the body of a definition without nested Imports.
BeginPlainFunctionDef ==
    /\ a_scope = "module"
    /\ \E f \in ScopedFunctions : a_scope' = f
    /\ UNCHANGED <<pvars, a_bound, notAliasScopes>>

\* _print_FunctionDef up to the body of a definition with a nested Import.
BeginImportingFunctionDef ==
    /\ a_scope = "module"
    /\ \E f \in ScopedFunctions :
          /\ a_scope' = f
          /\ ScopedImport(f)
    /\ UNCHANGED notAliasScopes

\* _print_FunctionDef returns.
EndScopedFunctionDef ==
    /\ a_scope \in ScopedFunctions
    /\ a_scope' = "module"
    /\ UNCHANGED <<pvars, a_bound, notAliasScopes>>

\* The name a reference is printed under when no alias is recorded.
DefaultName(node) ==
    CASE node = "NumpyArray" -> Name("array")
      [] node = "PyccelArraySize" -> Name("size")
      [] OTHER -> NoName

\* The bindings of a class that are visible in a scope: those made at module
\* level and those made in the definition itself.
VisibleBindings(scope, cls) ==
    {b \in a_bound : b[1] \in {"module", scope} /\ b[2] = cls}

\* C29: a reference to a library symbol is printed under an alias only if an
\* Import binding that alias is visible where the reference stands; where no
\* Import of the symbol is visible, the default name is printed and a
\* synthesized import is registered.
C29_AliasOnlyWhereVisible ==
    [][(/\ p_steps' = p_steps + 1
        /\ p_out'.node \in {"NumpyArray", "PyccelArraySize"})
       => LET visible == VisibleBindings(a_scope, ReferredClass(p_out'.node))
          IN  /\ p_out'.typename # DefaultName(p_out'.node)
                 => \E b \in visible : b[3] = p_out'.typename
              /\ visible = {}
                 => (/\ p_out'.typename = DefaultName(p_out'.node)
                     /\ \E i \in DOMAIN additional_imports' :
                           /\ additional_imports'[i].source = "numpy"
                           /\ \E t \in additional_imports'[i].names :
                                 t.target = DefaultName(p_out'.node))]_vars

(***************************************************************************)
(* The specifications.                                                     *)
(***************************************************************************)

GraphSpecInit == GraphInit /\ PrinterIdle /\ LoweringIdle /\ TraversalIdle /\ DirectivesIdle /\ SliceIdle /\ DefinitionsIdle /\ IndentIdle /\ UnitsIdle /\ OpenmpLoaded /\ ScopesIdle /\ CallsIdle /\ LockIdle

SpecGraph == GraphSpecInit /\ [][GraphNext]_vars

ImportsInit == GraphIdle /\ PrinterInit /\ default_precision = 0 /\ LoweringIdle /\ TraversalIdle /\ DirectivesIdle /\ SliceIdle /\ DefinitionsIdle /\ IndentIdle /\ UnitsIdle /\ OpenmpLoaded /\ ScopesIdle /\ CallsIdle /\ LockIdle

ImportsNext == DoInsertNewImport \/ DoPrintNumpyArray \/ DoPrintPyccelArraySize

SpecImports == ImportsInit /\ [][ImportsNext]_vars

TypesInit == GraphIdle /\ PrinterInit /\ default_precision \in {DefaultMarker, 8} /\ LoweringIdle /\ TraversalIdle /\ DirectivesIdle /\ SliceIdle /\ DefinitionsIdle /\ IndentIdle /\ UnitsIdle /\ OpenmpLoaded /\ ScopesIdle /\ CallsIdle /\ LockIdle

TypesNext ==
    \/ DoPrintPythonInt
    \/ DoPrintPythonFloat
    \/ DoPrintNumpyComplex
    \/ DoPrintLiteral
    \/ DoPrintNumpyLinspace
    \/ DoPrintNumpyFull
    \/ DoPrintNumpyAutoFill

SpecTypes == TypesInit /\ [][TypesNext]_vars

LoweringSpecInit == GraphIdle /\ PrinterIdle /\ LoweringInit /\ TraversalIdle /\ DirectivesIdle /\ SliceIdle /\ DefinitionsIdle /\ IndentIdle /\ UnitsIdle /\ OpenmpLoaded /\ ScopesIdle /\ CallsIdle /\ LockIdle

LoweringNext == DoPrintFunctionalFor \/ DoPrintGeneratorComprehension

SpecLowering == LoweringSpecInit /\ [][LoweringNext]_vars

TraversalSpecInit == GraphIdle /\ PrinterIdle /\ LoweringIdle /\ TraversalInit /\ DirectivesIdle /\ SliceIdle /\ DefinitionsIdle /\ IndentIdle /\ UnitsIdle /\ OpenmpLoaded /\ ScopesIdle /\ CallsIdle /\ LockIdle

TraversalNext ==
    \/ BeginModule
    \/ BeginProgram
    \/ BeginFunctionDef
    \/ BeginFor
    \/ BeginWhile
    \/ PrintStatement
    \/ EndModule
    \/ EndProgram
    \/ EndFunctionDef
    \/ EndFor
    \/ EndWhile

Spec == TraversalSpecInit /\ [][TraversalNext]_vars

DirectivesSpecInit ==
    GraphIdle /\ PrinterIdle /\ LoweringIdle /\ TraversalIdle /\ DirectivesInit /\ SliceIdle /\ DefinitionsIdle /\ IndentIdle /\ UnitsIdle /\ OpenmpLoaded /\ ScopesIdle /\ CallsIdle /\ LockIdle

DirectivesNext == DoParse \/ DoPrintOmpAnnotatedComment \/ DoPrintOmpEndClause

SpecDirectives == DirectivesSpecInit /\ [][DirectivesNext]_vars

SliceSpecInit ==
    GraphIdle /\ PrinterIdle /\ LoweringIdle /\ TraversalIdle /\ DirectivesIdle /\ SliceInitState
    /\ DefinitionsIdle /\ IndentIdle /\ UnitsIdle /\ OpenmpLoaded /\ ScopesIdle /\ CallsIdle /\ LockIdle

SliceNext == ConstructSlice \/ StrSlice

SpecSlice == SliceSpecInit /\ [][SliceNext]_vars

AliasesSpecInit ==
    /\ GraphIdle /\ PrinterInit /\ default_precision = 0 /\ LoweringIdle /\ TraversalIdle
    /\ DirectivesIdle /\ SliceIdle /\ DefinitionsIdle /\ IndentIdle /\ UnitsIdle /\ OpenmpLoaded /\ ScopesIdle /\ CallsIdle /\ LockIdle

AliasesNext == DoPrintImport \/ DoPrintNumpyArray \/ DoPrintPyccelArraySize

SpecAliases == AliasesSpecInit /\ [][AliasesNext]_vars

DefinitionsSpecInit ==
    /\ GraphIdle /\ PrinterIdle /\ LoweringIdle /\ TraversalIdle /\ DirectivesIdle /\ SliceIdle
    /\ DefinitionsInit /\ IndentIdle /\ UnitsIdle /\ OpenmpLoaded /\ ScopesIdle /\ CallsIdle /\ LockIdle

DefinitionsNext == DoPrintFunctionDef \/ DoPrintModule

SpecDefinitions == DefinitionsSpecInit /\ [][DefinitionsNext]_vars

IndentSpecInit ==
    /\ GraphIdle /\ PrinterIdle /\ LoweringIdle /\ TraversalIdle /\ DirectivesIdle /\ SliceIdle
    /\ DefinitionsIdle /\ IndentInit /\ UnitsIdle /\ OpenmpLoaded /\ ScopesIdle /\ CallsIdle /\ LockIdle

IndentNext == ApplyIndent

SpecIndent == IndentSpecInit /\ [][IndentNext]_vars

VersionSpecInit ==
    /\ GraphIdle /\ PrinterIdle /\ LoweringIdle /\ TraversalIdle /\ SliceIdle
    /\ DefinitionsIdle /\ IndentIdle /\ UnitsIdle /\ OpenmpLoaded /\ ScopesIdle /\ CallsIdle /\ LockIdle
    /\ o_stmt = <<>> /\ o_asserts \in BOOLEAN /\ o_status = "ready" /\ o_node = NoNode
    /\ o_errors = <<>> /\ o_code = <<>>

VersionNext == ParseDirective

SpecVersion == VersionSpecInit /\ [][VersionNext]_vars

UnitsSpecInit ==
    /\ GraphIdle /\ PrinterIdle /\ LoweringIdle /\ TraversalIdle /\ DirectivesIdle /\ SliceIdle
    /\ DefinitionsIdle /\ IndentIdle /\ UnitsInit /\ OpenmpLoaded /\ ScopesIdle /\ CallsIdle /\ LockIdle

UnitsNext ==
    \/ BeginUnit
    \/ UnitReport
    \/ UnitInsertNewImport
    \/ UnitPrintImport
    \/ UnitPrintModule
    \/ EndUnit
    \/ ResetCollector

SpecUnits == UnitsSpecInit /\ [][UnitsNext]_vars

LockSpecInit ==
    /\ GraphIdle /\ PrinterIdle /\ LoweringIdle /\ TraversalIdle /\ DirectivesIdle /\ SliceIdle
    /\ DefinitionsIdle /\ IndentIdle /\ UnitsIdle /\ OpenmpLoaded /\ ScopesIdle /\ CallsIdle /\ LockInit

LockNext == BeginTest \/ EnterBlock \/ LeaveBlock

\* Every process keeps running: a step of a run that stays possible is taken.
LockFairness == \A p \in Runs : WF_vars(BeginRun(p)) /\ WF_vars(EnterWith(p)) /\ WF_vars(LeaveWith(p))

SpecLock == LockSpecInit /\ [][LockNext]_vars /\ LockFairness

CallsSpecInit ==
    /\ GraphIdle /\ PrinterIdle /\ LoweringIdle /\ TraversalIdle /\ DirectivesIdle /\ SliceIdle
    /\ DefinitionsIdle /\ IndentIdle /\ UnitsIdle /\ OpenmpLoaded /\ ScopesIdle /\ CallsInit /\ LockIdle

CallsNext == DoPrintModuleImport \/ DoPrintSourceModule \/ DoPrintFunctionCall

SpecCalls == CallsSpecInit /\ [][CallsNext]_vars

AliasScopesSpecInit ==
    /\ GraphIdle /\ PrinterInit /\ default_precision = 0 /\ LoweringIdle /\ TraversalIdle
    /\ DirectivesIdle /\ SliceIdle /\ DefinitionsIdle /\ IndentIdle /\ UnitsIdle
    /\ OpenmpLoaded /\ ScopesInit /\ CallsIdle /\ LockIdle

AliasScopesNext ==
    \/ PrintModuleLevelImport
    \/ BeginPlainFunctionDef
    \/ BeginImportingFunctionDef
    \/ EndScopedFunctionDef
    \/ DoPrintNumpyArray
    \/ DoPrintPyccelArraySize

SpecAliasScopes == AliasScopesSpecInit /\ [][AliasScopesNext]_vars

====
